---------------------------- MODULE Spec2Model ----------------------------
(***************************************************************************)
(* A model of three2six (src/three2six): the version windows of fixers and *)
(* checkers, the selection of passes by name, the pipeline driver          *)
(* transpile_module, and the unpacking-generalizations fixer.              *)
(*                                                                         *)
(* Python strings on which the code does character work (version strings,  *)
(* class names, selectors) are sequences of one-character strings.  The    *)
(* syntax tree is a tree of records, one record shape per ast node class,  *)
(* with the field names of the ast module.                                 *)
(***************************************************************************)
EXTENDS Integers, Sequences, FiniteSets, TLC

VARIABLES
  \* --- version-window queries (SpecVersion) ---
  vpass,        \* the pass class whose version_info is queried
  vsrc,         \* the source version string handed to the query
  vtgt,         \* the target version string handed to the query
  vres,         \* what the queries returned (or that none ran yet)
  \* --- the generator of iter_fuzzy_selected_classes (SpecSelect) ---
  sel_names,    \* its names argument
  sel_clazz,    \* the name of its clazz argument: CheckerBase or FixerBase
  sel_it,       \* the generator
  sel_yielded,  \* the instances it has yielded so far, in order
  \* --- one run of transpile_module (Spec) ---
  cfg,          \* the BuildConfig of the run
  module_source,\* the module handed in, as the tree ast.parse makes of it
  pc,           \* where transpile_module is
  module_tree,  \* transpile_module's local module_tree
  checker_it,   \* the generator over the selected checkers
  fixer_it,     \* the generator over the selected fixers
  current,      \* the loop variable: the checker or fixer about to be called
  checker_log,  \* the checker instances invoked so far, in order
  fixer_objs,   \* the fixer instances invoked so far, with their effect sets
  error,        \* the exception that left transpile_module, if any
  output,       \* the value transpile_module returned, if any
  \* --- the unpacking fixer on one expression (SpecUnpack) ---
  uin,          \* the expression node handed to walk_node
  unode,        \* that node once walk_node has walked its fields
  ustar,        \* what expand_stararg_g12n returned or raised, if visit_expr called it
  uout,         \* what walk_node returned or raised
  uagain,       \* what walk_node returned or raised for the node it had returned
  \* --- TransformerFixerBase.__call__ on one tree (SpecTransformer) ---
  ttree,        \* the tree argument
  tvisited,     \* what self.visit(tree) returns or raises
  tresult       \* what the call returned or raised

vvars == <<vpass, vsrc, vtgt, vres>>
svars == <<sel_names, sel_clazz, sel_it, sel_yielded>>
pvars == <<cfg, module_source, pc, module_tree, checker_it, fixer_it, current,
           checker_log, fixer_objs, error, output>>
uvars == <<uin, unode, ustar, uout, uagain>>
tvars == <<ttree, tvisited, tresult>>
vars == <<vvars, svars, pvars, uvars, tvars>>

----------------------------------------------------------------------------
(* Bounds of the model.                                                     *)

\* Version strings range over 1.0 .. MaxMajor.MaxMinor.
MaxMajor == 3
MaxMinor == 10

----------------------------------------------------------------------------
(* Python str operations used by the code.                                  *)

\* the value of a one-element set: TheOne({e(x) : x \in {v}}) is e(v), with v
\* worked out once
TheOne(S) == CHOOSE x \in S : TRUE

\* None
NoneStr == <<"None">>

UpperChars == <<"A","B","C","D","E","F","G","H","I","J","K","L","M",
                "N","O","P","Q","R","S","T","U","V","W","X","Y","Z">>
LowerChars == <<"a","b","c","d","e","f","g","h","i","j","k","l","m",
                "n","o","p","q","r","s","t","u","v","w","x","y","z">>
DigitChars == <<"0","1","2","3","4","5","6","7","8","9">>

IndexIn(c, chars) == IF \E i \in 1..Len(chars) : chars[i] = c
                     THEN CHOOSE i \in 1..Len(chars) : chars[i] = c
                     ELSE 0

\* ord(c) for the characters that version strings are made of, and letters.
Ord(c) ==
  IF c = "." THEN 46
  ELSE IF c = "-" THEN 45
  ELSE IF c = " " THEN 32
  ELSE IF c = "," THEN 44
  ELSE IF c = "_" THEN 95
  ELSE IF IndexIn(c, DigitChars) > 0 THEN 47 + IndexIn(c, DigitChars)
  ELSE IF IndexIn(c, UpperChars) > 0 THEN 64 + IndexIn(c, UpperChars)
  ELSE 96 + IndexIn(c, LowerChars)

\* str.__lt__: the first differing character decides, a proper prefix is smaller.
RECURSIVE StrLt(_, _)
StrLt(a, b) ==
  IF b = <<>> THEN FALSE
  ELSE IF a = <<>> THEN TRUE
  ELSE IF Head(a) = Head(b) THEN StrLt(Tail(a), Tail(b))
  ELSE Ord(Head(a)) < Ord(Head(b))

\* str.__le__
StrLe(a, b) == a = b \/ StrLt(a, b)

\* str.__ge__
StrGe(a, b) == StrLe(b, a)

\* str.lower()
LowerChar(c) == IF IndexIn(c, UpperChars) > 0 THEN LowerChars[IndexIn(c, UpperChars)] ELSE c
lower(s) == [i \in 1..Len(s) |-> LowerChar(s[i])]

\* str.replace(c, "")
remove(s, c) == SelectSeq(s, LAMBDA x : x # c)

\* str.endswith(suffix)
endswith(s, suffix) ==
  /\ Len(suffix) <= Len(s)
  /\ SubSeq(s, Len(s) - Len(suffix) + 1, Len(s)) = suffix

\* str.strip(): leading and trailing whitespace removed (a blank is the one
\* whitespace character of the model)
strip(s) ==
  LET kept == {i \in 1..Len(s) : s[i] # " "}
  IN  IF kept = {} THEN <<>>
      ELSE SubSeq(s, CHOOSE i \in kept : \A j \in kept : i <= j,
                     CHOOSE i \in kept : \A j \in kept : j <= i)

\* str.split(sep): the pieces between the separators, empty pieces kept
split(s, sep) ==
  LET at == SelectSeq([i \in 1..Len(s) |-> i], LAMBDA i : s[i] = sep)
  IN  [n \in 1..(Len(at) + 1) |->
         SubSeq(s, IF n = 1 THEN 1 ELSE at[n - 1] + 1,
                   IF n = Len(at) + 1 THEN Len(s) ELSE at[n] - 1)]

----------------------------------------------------------------------------
(* The version windows: fixers.VersionInfo, checkers.VersionInfo.           *)

\* fixers.VersionInfo.__init__
VersionInfo(apply_since, apply_until, works_since, works_until) ==
  [apply_since |-> apply_since,
   apply_until |-> apply_until,
   works_since |-> IF works_since = NoneStr THEN apply_since ELSE works_since,
   works_until |-> works_until]

\* checkers.VersionInfo.__init__
CheckerVersionInfo(prohibited_until) == [prohibited_until |-> prohibited_until]

\* a class that sets no version_info attribute
NoVersionInfo == [unset |-> TRUE]

\* The attributes of a module as dir(module) lists them (sorted by name).
Other(name) == [name |-> name, isclass |-> FALSE]
Class(name, parent) ==
  [name |-> name, isclass |-> TRUE, parent |-> parent, version_info |-> NoVersionInfo]
Pass(name, parent, version_info) ==
  [name |-> name, isclass |-> TRUE, parent |-> parent, version_info |-> version_info]
FuturePass(name, parent, version_info, future_name) ==
  [name |-> name, isclass |-> TRUE, parent |-> parent, version_info |-> version_info,
   future_name |-> future_name]
RenamePass(name, parent, version_info, old_name, new_name) ==
  [name |-> name, isclass |-> TRUE, parent |-> parent, version_info |-> version_info,
   old_name |-> old_name, new_name |-> new_name]

N_BuiltinsRenameFixerBase == <<"B","u","i","l","t","i","n","s","R","e","n","a","m","e","F","i","x","e","r","B","a","s","e">>
N_CheckerBase == <<"C","h","e","c","k","e","r","B","a","s","e">>
N_FixerBase == <<"F","i","x","e","r","B","a","s","e">>
N_FutureImportFixerBase == <<"F","u","t","u","r","e","I","m","p","o","r","t","F","i","x","e","r","B","a","s","e">>
N_TransformerFixerBase == <<"T","r","a","n","s","f","o","r","m","e","r","F","i","x","e","r","B","a","s","e">>
N_VisitorCheckerBase == <<"V","i","s","i","t","o","r","C","h","e","c","k","e","r","B","a","s","e">>
N_object == <<"o","b","j","e","c","t">>
checkers ==
  <<
    Other(<<"A","S","Y","N","C","_","A","W","A","I","T","_","N","O","D","E","_","T","Y","P","E","S">>),
    Class(N_CheckerBase, N_object),
    Other(<<"M","O","D","U","L","E","_","B","A","C","K","P","O","R","T","S">>),
    Pass(<<"N","o","A","s","y","n","c","A","w","a","i","t">>, N_CheckerBase,
      CheckerVersionInfo(<<"3",".","4">>)),
    Pass(<<"N","o","O","p","e","n","W","i","t","h","E","n","c","o","d","i","n","g","C","h","e","c","k","e","r">>, N_CheckerBase,
      CheckerVersionInfo(<<"2",".","7">>)),
    Pass(<<"N","o","O","v","e","r","r","i","d","d","e","n","B","u","i","l","t","i","n","s","C","h","e","c","k","e","r">>, N_CheckerBase,
      CheckerVersionInfo(NoneStr)),
    Pass(<<"N","o","O","v","e","r","r","i","d","d","e","n","S","t","d","l","i","b","I","m","p","o","r","t","s","C","h","e","c","k","e","r">>, N_CheckerBase,
      CheckerVersionInfo(NoneStr)),
    Pass(<<"N","o","S","t","a","r","I","m","p","o","r","t","s">>, N_CheckerBase,
      CheckerVersionInfo(NoneStr)),
    Class(<<"N","o","T","h","r","e","e","O","n","l","y","I","m","p","o","r","t","s">>, N_CheckerBase),
    Other(<<"P","R","O","H","I","B","I","T","E","D","_","O","P","E","N","_","A","R","G","U","M","E","N","T","S">>),
    Class(<<"V","e","r","s","i","o","n","I","n","f","o">>, N_object),
    Class(N_VisitorCheckerBase, N_CheckerBase),
    Other(<<"_","_","b","u","i","l","t","i","n","s","_","_">>),
    Other(<<"_","_","c","a","c","h","e","d","_","_">>),
    Other(<<"_","_","d","o","c","_","_">>),
    Other(<<"_","_","f","i","l","e","_","_">>),
    Other(<<"_","_","l","o","a","d","e","r","_","_">>),
    Other(<<"_","_","n","a","m","e","_","_">>),
    Other(<<"_","_","p","a","c","k","a","g","e","_","_">>),
    Other(<<"_","_","s","p","e","c","_","_">>),
    Other(<<"a","s","t">>),
    Other(<<"c","o","m","m","o","n">>),
    Other(<<"t","y","p">>)
  >>

fixers ==
  <<
    FuturePass(<<"A","b","s","o","l","u","t","e","I","m","p","o","r","t","F","u","t","u","r","e","F","i","x","e","r">>, N_FutureImportFixerBase,
      VersionInfo(<<"2",".","5">>, <<"2",".","7">>, NoneStr, NoneStr), "absolute_import"),
    FuturePass(<<"A","n","n","o","t","a","t","i","o","n","s","F","u","t","u","r","e","F","i","x","e","r">>, N_FutureImportFixerBase,
      VersionInfo(<<"3",".","7">>, <<"3",".","9">>, NoneStr, NoneStr), "annotations"),
    Other(<<"A","r","g","U","n","p","a","c","k","N","o","d","e","s">>),
    Class(N_BuiltinsRenameFixerBase, N_FixerBase),
    Other(<<"C","o","n","t","a","i","n","e","r","N","o","d","e","s">>),
    FuturePass(<<"D","i","v","i","s","i","o","n","F","u","t","u","r","e","F","i","x","e","r">>, N_FutureImportFixerBase,
      VersionInfo(<<"2",".","2">>, <<"2",".","7">>, NoneStr, NoneStr), "division"),
    Pass(<<"F","S","t","r","i","n","g","T","o","S","t","r","F","o","r","m","a","t","F","i","x","e","r">>, N_TransformerFixerBase,
      VersionInfo(<<"2",".","6">>, <<"3",".","5">>, NoneStr, NoneStr)),
    Class(N_FixerBase, N_object),
    Class(N_FutureImportFixerBase, N_FixerBase),
    FuturePass(<<"G","e","n","e","r","a","t","o","r","S","t","o","p","F","u","t","u","r","e","F","i","x","e","r">>, N_FutureImportFixerBase,
      VersionInfo(<<"3",".","5">>, <<"3",".","6">>, NoneStr, NoneStr), "generator_stop"),
    FuturePass(<<"G","e","n","e","r","a","t","o","r","s","F","u","t","u","r","e","F","i","x","e","r">>, N_FutureImportFixerBase,
      VersionInfo(<<"2",".","2">>, <<"2",".","2">>, NoneStr, NoneStr), "generators"),
    Other(<<"I","m","m","u","t","a","b","l","e","V","a","l","u","e","N","o","d","e","s">>),
    Pass(<<"I","n","l","i","n","e","K","W","O","n","l","y","A","r","g","s","F","i","x","e","r">>, N_TransformerFixerBase,
      VersionInfo(<<"1",".","0">>, <<"3",".","5">>, NoneStr, NoneStr)),
    Pass(<<"I","t","e","r","t","o","o","l","s","B","u","i","l","t","i","n","s","F","i","x","e","r">>, N_TransformerFixerBase,
      VersionInfo(<<"2",".","3">>, <<"2",".","7">>, NoneStr, <<"3",".","7">>)),
    Other(<<"K","w","A","r","g","U","n","p","a","c","k","N","o","d","e","s">>),
    Other(<<"L","e","a","f","N","o","d","e","s">>),
    Pass(<<"N","a","m","e","d","T","u","p","l","e","C","l","a","s","s","T","o","A","s","s","i","g","n","F","i","x","e","r">>, N_TransformerFixerBase,
      VersionInfo(<<"2",".","6">>, <<"3",".","4">>, NoneStr, NoneStr)),
    FuturePass(<<"N","e","s","t","e","d","S","c","o","p","e","s","F","u","t","u","r","e","F","i","x","e","r">>, N_FutureImportFixerBase,
      VersionInfo(<<"2",".","1">>, <<"2",".","1">>, NoneStr, NoneStr), "nested_scopes"),
    Pass(<<"N","e","w","S","t","y","l","e","C","l","a","s","s","e","s","F","i","x","e","r">>, N_TransformerFixerBase,
      VersionInfo(<<"2",".","0">>, <<"2",".","7">>, NoneStr, NoneStr)),
    FuturePass(<<"P","r","i","n","t","F","u","n","c","t","i","o","n","F","u","t","u","r","e","F","i","x","e","r">>, N_FutureImportFixerBase,
      VersionInfo(<<"2",".","6">>, <<"2",".","7">>, NoneStr, NoneStr), "print_function"),
    RenamePass(<<"R","a","w","I","n","p","u","t","T","o","I","n","p","u","t","F","i","x","e","r">>, N_BuiltinsRenameFixerBase,
      VersionInfo(<<"1",".","0">>, <<"2",".","7">>, NoneStr, <<"3",".","7">>), "raw_input", "input"),
    Pass(<<"R","e","m","o","v","e","A","n","n","A","s","s","i","g","n","F","i","x","e","r">>, N_TransformerFixerBase,
      VersionInfo(<<"1",".","0">>, <<"3",".","5">>, NoneStr, NoneStr)),
    Pass(<<"R","e","m","o","v","e","F","u","n","c","t","i","o","n","D","e","f","A","n","n","o","t","a","t","i","o","n","s","F","i","x","e","r">>, N_FixerBase,
      VersionInfo(<<"1",".","0">>, <<"2",".","7">>, NoneStr, NoneStr)),
    Pass(<<"S","h","o","r","t","T","o","L","o","n","g","F","o","r","m","S","u","p","e","r","F","i","x","e","r">>, N_TransformerFixerBase,
      VersionInfo(<<"2",".","2">>, <<"2",".","7">>, NoneStr, NoneStr)),
    Class(N_TransformerFixerBase, N_FixerBase),
    RenamePass(<<"U","n","i","c","h","r","T","o","C","h","r","F","i","x","e","r">>, N_BuiltinsRenameFixerBase,
      VersionInfo(<<"1",".","0">>, <<"2",".","7">>, NoneStr, <<"3",".","7">>), "unichr", "chr"),
    FuturePass(<<"U","n","i","c","o","d","e","L","i","t","e","r","a","l","s","F","u","t","u","r","e","F","i","x","e","r">>, N_FutureImportFixerBase,
      VersionInfo(<<"2",".","6">>, <<"2",".","7">>, NoneStr, NoneStr), "unicode_literals"),
    RenamePass(<<"U","n","i","c","o","d","e","T","o","S","t","r","F","i","x","e","r">>, N_BuiltinsRenameFixerBase,
      VersionInfo(<<"1",".","0">>, <<"2",".","7">>, NoneStr, <<"3",".","7">>), "unicode", "str"),
    Pass(<<"U","n","p","a","c","k","i","n","g","G","e","n","e","r","a","l","i","z","a","t","i","o","n","s","F","i","x","e","r">>, N_FixerBase,
      VersionInfo(<<"2",".","0">>, <<"3",".","4">>, NoneStr, NoneStr)),
    Class(<<"V","e","r","s","i","o","n","I","n","f","o">>, N_object),
    FuturePass(<<"W","i","t","h","S","t","a","t","e","m","e","n","t","F","u","t","u","r","e","F","i","x","e","r">>, N_FutureImportFixerBase,
      VersionInfo(<<"2",".","5">>, <<"2",".","5">>, NoneStr, NoneStr), "with_statement"),
    RenamePass(<<"X","r","a","n","g","e","T","o","R","a","n","g","e","F","i","x","e","r">>, N_BuiltinsRenameFixerBase,
      VersionInfo(<<"1",".","0">>, <<"2",".","7">>, NoneStr, <<"3",".","7">>), "xrange", "range"),
    Other(<<"_","_","b","u","i","l","t","i","n","s","_","_">>),
    Other(<<"_","_","c","a","c","h","e","d","_","_">>),
    Other(<<"_","_","d","o","c","_","_">>),
    Other(<<"_","_","f","i","l","e","_","_">>),
    Other(<<"_","_","l","o","a","d","e","r","_","_">>),
    Other(<<"_","_","n","a","m","e","_","_">>),
    Other(<<"_","_","p","a","c","k","a","g","e","_","_">>),
    Other(<<"_","_","s","p","e","c","_","_">>),
    Other(<<"a","s","t">>),
    Other(<<"c","o","m","m","o","n">>),
    Other(<<"i","s","_","d","i","c","t","_","c","a","l","l">>),
    Other(<<"s","y","s">>),
    Other(<<"t","y","p">>),
    Other(<<"u","t","i","l","s">>)
  >>


\* getattr(module, name)
HasAttr(module, name) == \E i \in 1..Len(module) : module[i].name = name
GetAttr(module, name) == module[CHOOSE i \in 1..Len(module) : module[i].name = name]

\* issubclass(attr, clazz) for two classes of one module (a class is a subclass
\* of itself)
RECURSIVE issubclass(_, _, _)
issubclass(module, attr, clazz_name) ==
  IF attr.name = clazz_name THEN TRUE
  ELSE IF attr.parent = N_object THEN FALSE
  ELSE issubclass(module, GetAttr(module, attr.parent), clazz_name)

Classes(module, clazz_name) ==
  {module[i] : i \in {j \in 1..Len(module) :
                        module[j].isclass /\ issubclass(module, module[j], clazz_name)}}

\* FixerBase.is_required_for
is_required_for(self, version) ==
  LET nfo == self.version_info
  IN  StrLe(nfo.apply_since, version) /\ StrLe(version, nfo.apply_until)

\* FixerBase.is_compatible_with
is_compatible_with(self, version) ==
  LET nfo == self.version_info
  IN  /\ StrLe(nfo.works_since, version)
      /\ (nfo.works_until = NoneStr \/ StrLe(version, nfo.works_until))

\* FixerBase.is_applicable_to
is_applicable_to(self, src_version, tgt_version) ==
  is_compatible_with(self, src_version) /\ is_required_for(self, tgt_version)

\* CheckerBase.is_prohibited_for
is_prohibited_for(self, version) ==
  \/ self.version_info.prohibited_until = NoneStr
  \/ StrGe(self.version_info.prohibited_until, version)

----------------------------------------------------------------------------
(* transpile.iter_fuzzy_selected_classes                                    *)

\* a dict as the list of its <<key, value>> items in insertion order
DictHas(d, key) == \E i \in 1..Len(d) : d[i][1] = key
DictGet(d, key) == d[CHOOSE i \in 1..Len(d) : d[i][1] = key][2]
DictKeys(d) == [i \in 1..Len(d) |-> d[i][1]]

\* the names argument: a str, or a list of str
StrNames(s) == [isstr |-> TRUE, v |-> s]
ListNames(l) == [isstr |-> FALSE, v |-> l]

\* names.split(",") for a str, then the stripped non-blank names
split_names(names) ==
  LET pieces == IF names.isstr THEN split(names.v, ",") ELSE names.v
      kept == SelectSeq(pieces, LAMBDA name : strip(name) # <<>>)
  IN  [i \in 1..Len(kept) |-> strip(kept[i])]

\* clazz_name[:-4]
optional_suffix(clazz_name) == SubSeq(clazz_name, 1, Len(clazz_name) - 4)

\* normalize_name with the suffix left on the name
normalize_name_keeps_suffix(name, clazz_name) ==
  remove(remove(lower(name), "_"), "-")

\* normalize_name, the closure of iter_fuzzy_selected_classes
normalize_name(name, clazz_name) ==
  LET suffix == optional_suffix(clazz_name)
      lowered == remove(remove(lower(name), "_"), "-")
  IN  IF endswith(lowered, lower(suffix))
      THEN SubSeq(lowered, 1, Len(lowered) - Len(suffix))
      ELSE lowered

\* maybe_classes: the attributes of the module whose name does not end with
\* clazz_name, in dir() order
maybe_classes(module, clazz_name) ==
  SelectSeq(module, LAMBDA attr : ~endswith(attr.name, clazz_name))

\* available_classes: the subclasses of clazz among them, by normalized name
\* (a dict comprehension: a key stays where it came first and holds the value
\* that came last)
available_items(attrs, keys) ==
  LET first == SelectSeq([i \in 1..Len(keys) |-> i],
                         LAMBDA i : \A j \in 1..(i - 1) : keys[j] # keys[i])
      last(key) == CHOOSE i \in 1..Len(keys) :
                     keys[i] = key /\ \A j \in (i + 1)..Len(keys) : keys[j] # key
  IN  [n \in 1..Len(first) |-> <<keys[first[n]], attrs[last(keys[first[n]])]>>]

available_classes(module, clazz_name) ==
  TheOne({
    TheOne({available_items(attrs, keys) :
              keys \in {[i \in 1..Len(attrs) |-> normalize_name(attrs[i].name, clazz_name)]}})
    : attrs \in {SelectSeq(maybe_classes(module, clazz_name),
                           LAMBDA attr : attr.isclass /\ issubclass(module, attr, clazz_name))}})

\* selected_names: the normalized names of the selector in the order they are
\* written, or every available name when the selector names nothing
selected_names(names, module, clazz_name) ==
  LET given == split_names(names)
  IN  IF given # <<>>
      THEN [i \in 1..Len(given) |-> normalize_name(given[i], clazz_name)]
      ELSE DictKeys(available_classes(module, clazz_name))

\* clazz(): a new instance of a pass class; FixerBase.__init__ gives a fixer two
\* empty sets
FixerInstance(clazz) ==
  [clazz |-> clazz.name, required_imports |-> {}, module_declarations |-> {}]
CheckerInstance(clazz) == [clazz |-> clazz.name]
NewInstance(clazz, clazz_name) ==
  IF clazz_name = N_FixerBase THEN FixerInstance(clazz) ELSE CheckerInstance(clazz)

\* The generator iter_fuzzy_selected_classes returns: nothing of its body has
\* run when it is created; the first next() runs the body up to the first
\* yield; every further next() runs one turn of the loop.
GenCreated(names) == [state |-> "created", names |-> names]
GenSuspended(selected, pos) ==
  [state |-> "suspended", selected_names |-> selected, pos |-> pos]
GenFinished == [state |-> "finished"]
GenRaised(exc) == [state |-> "raised", exc |-> exc]

\* next(generator): the generator afterwards, and the instance it yielded
gen_next(it, module, clazz_name) ==
  TheOne({
    LET pos == IF it.state = "created" THEN 1 ELSE it.pos
    IN  IF Len(selected) = 0
        THEN [it |-> GenRaised([exc |-> "AssertionError"])]
        ELSE IF pos > Len(selected) THEN [it |-> GenFinished]
        ELSE IF ~DictHas(available, selected[pos])
        THEN [it |-> GenRaised([exc |-> "KeyError", key |-> selected[pos]])]
        ELSE [it |-> GenSuspended(selected, pos + 1),
              value |-> NewInstance(DictGet(available, selected[pos]), clazz_name)]
    : selected \in {IF it.state = "created"
                    THEN selected_names(it.names, module, clazz_name)
                    ELSE it.selected_names},
      available \in {available_classes(module, clazz_name)}})

----------------------------------------------------------------------------
(* The syntax tree: one record shape per ast node class.  A node the       *)
(* parser made carries the ctx its class has; a node a fixer constructs     *)
(* carries exactly the fields the constructor call names.                   *)

\* None, where a node or a list entry may be None (a Dict key of a ** entry)
NoneNode == [k |-> "None"]
\* None, where an identifier may be None (alias.asname, ImportDecl.import_name);
\* a str the code looks into (keyword.arg, Str.s) is a character sequence, and
\* None is NoneStr there
NoneName == "None"

Name(id, ctx) == [k |-> "Name", id |-> id, ctx |-> ctx]
Num(n) == [k |-> "Num", n |-> n]
Str(s) == [k |-> "Str", s |-> s]
Starred(value) == [k |-> "Starred", value |-> value, ctx |-> "Load"]
List(elts) == [k |-> "List", elts |-> elts, ctx |-> "Load"]
Tuple(elts) == [k |-> "Tuple", elts |-> elts, ctx |-> "Load"]
Set(elts) == [k |-> "Set", elts |-> elts]
Dict(keys, values) == [k |-> "Dict", keys |-> keys, values |-> values]
keyword(arg, value) == [k |-> "keyword", arg |-> arg, value |-> value]
Call(func, args, keywords) == [k |-> "Call", func |-> func, args |-> args, keywords |-> keywords]
Attribute(value, attr) == [k |-> "Attribute", value |-> value, attr |-> attr, ctx |-> "Load"]
BinOp(left, op, right) == [k |-> "BinOp", left |-> left, op |-> op, right |-> right]
Await(value) == [k |-> "Await", value |-> value]
\* ast.List(elts=...), ast.Tuple(elts=...) as the fixer constructs them: no ctx
NewList(elts) == [k |-> "List", elts |-> elts]
NewTuple(elts) == [k |-> "Tuple", elts |-> elts]

alias(name, asname) == [k |-> "alias", name |-> name, asname |-> asname]
Expr(value) == [k |-> "Expr", value |-> value]
Assign(targets, value) == [k |-> "Assign", targets |-> targets, value |-> value]
AnnAssign(target, annotation, value) ==
  [k |-> "AnnAssign", target |-> target, annotation |-> annotation, value |-> value,
   simple |-> IF target.k = "Name" THEN 1 ELSE 0]
Index(value) == [k |-> "Index", value |-> value]
Subscript(value, slice, ctx) == [k |-> "Subscript", value |-> value, slice |-> slice, ctx |-> ctx]
ImportFrom(module, names) == [k |-> "ImportFrom", module |-> module, names |-> names, level |-> 0]
Module(body) == [k |-> "Module", body |-> body]

ContainerNodes == {"List", "Set", "Tuple"}
LeafNodes == {"Num", "Str", "Bytes", "NameConstant", "Name",
              "cmpop", "boolop", "operator", "unaryop", "expr_context"}
ArgUnpackNodes == {"Call", "List", "Tuple", "Set"}
KwArgUnpackNodes == {"Call", "Dict"}
\* the node classes of the model that are subclasses of ast.expr
ExprNodes == {"Name", "Num", "Str", "Starred", "List", "Tuple", "Set", "Dict",
              "Call", "Attribute", "BinOp", "Await", "Subscript"}

\* common.ImportDecl(module_name, import_name)
ImportDecl(module_name, import_name) == <<module_name, import_name>>

----------------------------------------------------------------------------
(* fixers.UnpackingGeneralizationsFixer                                     *)

\* what a method returned, or the exception that left it; imports are the
\* entries the call added to self.required_imports on the way
Ok(node, imports) == [ok |-> TRUE, node |-> node, imports |-> imports]
Raise(exc, imports) == [ok |-> FALSE, exc |-> exc, imports |-> imports]

\* fixers.is_dict_call
is_dict_call(node) ==
  node.k = "Call" /\ node.func.k = "Name" /\ node.func.id = "dict"

\* the loop of _has_stararg_g12n over elts
RECURSIVE has_starred_loop(_, _)
has_starred_loop(elts, has_starred_arg) ==
  IF elts = <<>> THEN FALSE
  ELSE IF has_starred_arg THEN TRUE
  ELSE has_starred_loop(Tail(elts), Head(elts).k = "Starred")

\* UnpackingGeneralizationsFixer._has_stararg_g12n (called on ArgUnpackNodes)
has_stararg_g12n(node) ==
  has_starred_loop(IF node.k = "Call" THEN node.args ELSE node.elts, FALSE)

\* the loops of _has_starstarargs_g12n: over keywords (by kw.arg) or keys
RECURSIVE has_kwstarred_loop(_, _)
has_kwstarred_loop(items, has_kwstarred_arg) ==
  IF items = <<>> THEN FALSE
  ELSE IF has_kwstarred_arg THEN TRUE
  ELSE has_kwstarred_loop(Tail(items),
         IF Head(items).k = "keyword" THEN Head(items).arg = NoneStr
         ELSE Head(items) = NoneNode)

\* UnpackingGeneralizationsFixer._has_starstarargs_g12n (called on KwArgUnpackNodes)
has_starstarargs_g12n(node) ==
  has_kwstarred_loop(IF node.k = "Call" THEN node.keywords ELSE node.keys, FALSE)

\* UnpackingGeneralizationsFixer._node_with_elts
node_with_elts(node, new_elts) ==
  IF node.k = "Call" THEN [node EXCEPT !.args = new_elts]
  ELSE IF node.k = "List" THEN NewList(new_elts)
  ELSE IF node.k = "Set" THEN Set(new_elts)
  ELSE NewTuple(new_elts)

\* UnpackingGeneralizationsFixer._node_with_binop
node_with_binop(node, binop) ==
  IF node.k = "Call" THEN [node EXCEPT !.args = <<Starred(binop)>>]
  ELSE IF node.k = "List" THEN binop
  ELSE IF node.k = "Set" THEN Call(Name("set", "Load"), <<binop>>, <<>>)
  ELSE Call(Name("tuple", "Load"), <<binop>>, <<>>)

\* the loop with the elements of a spread literal put in front of the list
\* they join
RECURSIVE stararg_operands_prepends(_, _)
stararg_operands_prepends(elts, operands) ==
  IF elts = <<>> THEN operands
  ELSE IF Head(elts).k # "Starred"
  THEN stararg_operands_prepends(Tail(elts),
         [operands EXCEPT ![Len(operands)] = NewList(Append(@.elts, Head(elts)))])
  ELSE IF Head(elts).value.k \in ContainerNodes
  THEN stararg_operands_prepends(Tail(elts),
         [operands EXCEPT ![Len(operands)] = NewList(Head(elts).value.elts \o @.elts)])
  ELSE stararg_operands_prepends(Tail(elts),
         Append(IF Len(operands[Len(operands)].elts) = 0
                THEN [operands EXCEPT ![Len(operands)] =
                        Call(Name("list", "Load"), <<Head(elts).value>>, <<>>)]
                ELSE Append(operands, Call(Name("list", "Load"), <<Head(elts).value>>, <<>>)),
                NewList(<<>>)))

\* the loop of expand_stararg_g12n over elts: the operands it leaves
RECURSIVE stararg_operands(_, _)
stararg_operands(elts, operands) ==
  IF elts = <<>> THEN operands
  ELSE
    LET elt == Head(elts)
        last == Len(operands)
        tail_elts == operands[last].elts
    IN  IF elt.k # "Starred"
        THEN stararg_operands(Tail(elts),
               [operands EXCEPT ![last] = NewList(Append(tail_elts, elt))])
        ELSE IF elt.value.k \in ContainerNodes
        THEN stararg_operands(Tail(elts),
               [operands EXCEPT ![last] = NewList(tail_elts \o elt.value.elts)])
        ELSE
          LET new_val_node == Call(Name("list", "Load"), <<elt.value>>, <<>>)
              with_val == IF Len(tail_elts) = 0
                          THEN [operands EXCEPT ![last] = new_val_node]
                          ELSE Append(operands, new_val_node)
          IN  stararg_operands(Tail(elts), Append(with_val, NewList(<<>>)))

\* the fold with the operands taken in the wrong order
RECURSIVE fold_binop_swapped(_, _)
fold_binop_swapped(binop, operands) ==
  IF operands = <<>> THEN binop
  ELSE fold_binop_swapped(BinOp(Head(operands), "Add", binop), Tail(operands))

\* the fold of the operands into one left-nested BinOp
RECURSIVE fold_binop(_, _)
fold_binop(binop, operands) ==
  IF operands = <<>> THEN binop
  ELSE fold_binop(BinOp(binop, "Add", Head(operands)), Tail(operands))

\* the end of expand_stararg_g12n (lines 635-663), walked being the operands
\* the loop left
stararg_result(node, walked) ==
  LET tail_list == walked[Len(walked)]
      operands == IF Len(tail_list.elts) = 0
                  THEN SubSeq(walked, 1, Len(walked) - 1)
                  ELSE walked
  IN  IF Len(operands) = 1
      THEN IF operands[1].k = "List"
           THEN Ok(node_with_elts(node, operands[1].elts), {})
           ELSE Raise("AssertionError", {})
      ELSE IF Len(operands) > 1
      THEN Ok(node_with_binop(node,
                fold_binop(BinOp(operands[1], "Add", operands[2]),
                           SubSeq(operands, 3, Len(operands)))), {})
      ELSE Raise("RuntimeError", {})

\* UnpackingGeneralizationsFixer.expand_stararg_g12n
expand_stararg_g12n(node) ==
  TheOne({stararg_result(node, walked) :
            walked \in {stararg_operands(IF node.k = "Call" THEN node.args ELSE node.elts,
                                         <<NewList(<<>>)>>)}})

\* the chain values expand_starstararg_g12n builds from a Dict's keys/values
dict_chain_values(node) ==
  [i \in 1..Len(node.keys) |->
     IF node.keys[i] = NoneNode THEN node.values[i]
     ELSE Dict(<<node.keys[i]>>, <<node.values[i]>>)]

\* the chain values expand_starstararg_g12n builds from a Call's keywords
call_chain_values(node) ==
  [i \in 1..Len(node.keywords) |->
     IF node.keywords[i].arg = NoneStr THEN node.keywords[i].value
     ELSE Dict(<<Str(node.keywords[i].arg)>>, <<node.keywords[i].value>>)]

\* the collapse loop with the pairs of an absorbed Dict put in front
RECURSIVE collapse_loop_prepends(_, _, _)
collapse_loop_prepends(chain_values, collapsed, i) ==
  IF i > Len(chain_values)
  THEN [chain_values |-> chain_values, collapsed |-> collapsed]
  ELSE IF Len(collapsed) = 0
  THEN collapse_loop_prepends(chain_values, Append(collapsed, i), i + 1)
  ELSE IF chain_values[i].k = "Dict" /\ chain_values[collapsed[Len(collapsed)]].k = "Dict"
  THEN collapse_loop_prepends(
         [chain_values EXCEPT ![collapsed[Len(collapsed)]] =
            [@ EXCEPT !.keys = chain_values[i].keys \o @,
                      !.values = chain_values[i].values \o @]],
         collapsed, i + 1)
  ELSE collapse_loop_prepends(chain_values, Append(collapsed, i), i + 1)

\* The collapse loop.  collapsed_chain_values holds the same objects as
\* chain_values, and a Dict that absorbs its successor is changed in place:
\* chain_values is the list with those changes, collapsed the positions in it
\* that collapsed_chain_values holds.
RECURSIVE collapse_loop(_, _, _)
collapse_loop(chain_values, collapsed, i) ==
  IF i > Len(chain_values)
  THEN [chain_values |-> chain_values, collapsed |-> collapsed]
  ELSE
    LET chain_val == chain_values[i]
    IN  IF Len(collapsed) = 0
        THEN collapse_loop(chain_values, Append(collapsed, i), i + 1)
        ELSE
          LET prev == collapsed[Len(collapsed)]
              prev_chain_val == chain_values[prev]
          IN  IF chain_val.k = "Dict" /\ prev_chain_val.k = "Dict"
              THEN collapse_loop(
                     [chain_values EXCEPT ![prev] =
                        [prev_chain_val EXCEPT !.keys = @ \o chain_val.keys,
                                               !.values = @ \o chain_val.values]],
                     collapsed, i + 1)
              ELSE collapse_loop(chain_values, Append(collapsed, i), i + 1)

\* common.ImportDecl("itertools", None)
ItertoolsImport == ImportDecl("itertools", NoneName)

\* the end of expand_starstararg_g12n (lines 727-777), done being what the
\* collapse loop left
starstararg_result(node, done) ==
  LET chain_values == done.chain_values
      collapsed_chain_values ==
        [j \in 1..Len(done.collapsed) |-> chain_values[done.collapsed[j]]]
  IN  IF Len(collapsed_chain_values) = 0
      THEN Raise("AssertionError", {})
      ELSE IF Len(collapsed_chain_values) = 1
      THEN
        LET collapsed_chain_value == collapsed_chain_values[1]
        IN  IF node.k = "Dict" THEN Ok(collapsed_chain_value, {})
            ELSE IF node.func.k = "Name" /\ node.func.id = "dict"
            THEN Ok(collapsed_chain_value, {})
            ELSE Ok(Call(node.func, node.args,
                         <<keyword(NoneStr, collapsed_chain_value)>>), {})
      ELSE IF node.k # "Call"
      THEN Raise("AssertionError", {})
      ELSE
        LET chain_args ==
              [i \in 1..Len(chain_values) |->
                 Call(Attribute(chain_values[i], "items"), <<>>, <<>>)]
            value_node ==
              Call(Name("dict", "Load"),
                   <<Call(Attribute(Name("itertools", "Load"), "chain"), chain_args, <<>>)>>,
                   <<>>)
        IN  Ok([node EXCEPT !.keywords = <<keyword(NoneStr, value_node)>>],
               {ItertoolsImport})

\* UnpackingGeneralizationsFixer.expand_starstararg_g12n
expand_starstararg_g12n(node) ==
  TheOne({starstararg_result(node, done) :
            done \in {collapse_loop(IF node.k = "Dict" THEN dict_chain_values(node)
                                    ELSE call_chain_values(node), <<>>, 1)}})

\* UnpackingGeneralizationsFixer.visit_expr
visit_expr(node) ==
  TheOne({
    \* a Call is changed in place by the first step, so `node` is then the
    \* changed Call; a container is replaced, and `node` is still the old one
    LET node_now == IF first.ok /\ node.k = "Call" THEN first.node ELSE node
    IN  IF ~first.ok THEN first
        ELSE IF node_now.k \in KwArgUnpackNodes /\ has_starstarargs_g12n(node_now)
        THEN expand_starstararg_g12n(first.node)
        ELSE first
    : first \in {IF node.k \in ArgUnpackNodes /\ has_stararg_g12n(node)
                 THEN expand_stararg_g12n(node)
                 ELSE Ok(node, {})}})

\* the end of walk_node: visit_expr on an expression whose fields are walked,
\* then the unwrapping of dict(**{...}) and dict(**dict(...))
visit_walked(node, imports) ==
  IF node.k \notin ExprNodes THEN Ok(node, imports)
  ELSE TheOne({
    IF ~visited.ok THEN Raise(visited.exc, imports \cup visited.imports)
    ELSE
      LET new_expr_node == visited.node
          is_single_dict_splat ==
            /\ is_dict_call(new_expr_node)
            /\ Len(new_expr_node.args) = 0
            /\ Len(new_expr_node.keywords) = 1
            /\ new_expr_node.keywords[1].arg = NoneStr
      IN  IF /\ new_expr_node.k = "Call"
             /\ is_single_dict_splat
             /\ \/ is_dict_call(new_expr_node.keywords[1].value)
                \/ new_expr_node.keywords[1].value.k = "Dict"
          THEN Ok(new_expr_node.keywords[1].value, imports \cup visited.imports)
          ELSE Ok(new_expr_node, imports \cup visited.imports)
    : visited \in {visit_expr(node)}})

\* ast.iter_fields filtered by iter_walkable_fields: the fields of a node
\* that walk_node looks at, in _fields order (a field holding a leaf node,
\* an expr_context, a str or None is passed over or left as it is)
WalkableFields(node) ==
  LET fields ==
        IF node.k = "Call" THEN <<"func", "args", "keywords">>
        ELSE IF node.k \in {"List", "Tuple", "Set"} THEN <<"elts">>
        ELSE IF node.k = "Dict" THEN <<"keys", "values">>
        ELSE IF node.k \in {"Starred", "keyword", "Attribute", "Await", "Expr", "Index"}
        THEN <<"value">>
        ELSE IF node.k = "Subscript" THEN <<"value", "slice">>
        ELSE IF node.k = "AnnAssign" THEN <<"target", "annotation", "value">>
        ELSE IF node.k = "BinOp" THEN <<"left", "right">>
        ELSE IF node.k = "Assign" THEN <<"targets", "value">>
        ELSE IF node.k = "ImportFrom" THEN <<"names">>
        ELSE IF node.k = "Module" THEN <<"body">>
        ELSE <<>>
  IN  fields

\* whether a field holds a list (of nodes) rather than one node
IsListField(f) == f \in {"args", "keywords", "elts", "keys", "values", "targets", "names", "body"}

RECURSIVE walk_node(_)
RECURSIVE walk_list(_, _, _)
RECURSIVE walk_fields(_, _, _)

\* the loop of walk_node over the entries of a list field
walk_list(sub_nodes, new_field_node, imports) ==
  IF sub_nodes = <<>> THEN Ok(new_field_node, imports)
  ELSE
    LET sub_node == Head(sub_nodes)
    IN  IF sub_node.k \in LeafNodes \/ sub_node = NoneNode
        THEN walk_list(Tail(sub_nodes), Append(new_field_node, sub_node), imports)
        ELSE TheOne({
          IF ~new_sub_node.ok THEN Raise(new_sub_node.exc, imports \cup new_sub_node.imports)
          ELSE walk_list(Tail(sub_nodes), Append(new_field_node, new_sub_node.node),
                         imports \cup new_sub_node.imports)
          : new_sub_node \in {walk_node(sub_node)}})

\* the loop of walk_node over the walkable fields of node
walk_fields(node, fields, imports) ==
  IF fields = <<>> THEN Ok(node, imports)
  ELSE
    LET field_name == Head(fields)
        field_node == node[field_name]
    IN  IF IsListField(field_name)
        THEN TheOne({
               IF ~walked.ok THEN walked
               ELSE walk_fields([node EXCEPT ![field_name] = walked.node],
                                Tail(fields), walked.imports)
               : walked \in {walk_list(field_node, <<>>, imports)}})
        ELSE IF field_node.k \in LeafNodes \/ field_node = NoneNode
        THEN walk_fields(node, Tail(fields), imports)
        ELSE TheOne({
               IF ~walked.ok THEN Raise(walked.exc, imports \cup walked.imports)
               ELSE walk_fields([node EXCEPT ![field_name] = walked.node],
                                Tail(fields), imports \cup walked.imports)
               : walked \in {walk_node(field_node)}})

\* UnpackingGeneralizationsFixer.walk_node
walk_node(node) ==
  IF node.k \in LeafNodes THEN Ok(node, {})
  ELSE TheOne({
    IF ~walked.ok THEN walked
    ELSE visit_walked(walked.node, walked.imports)
    : walked \in {walk_fields(node, WalkableFields(node), {})}})

----------------------------------------------------------------------------
(* ast.walk, and the checkers                                               *)

\* ast.iter_child_nodes: the nodes in the fields of a node, in _fields order
\* (the expr_context and operator nodes, which no pass looks for, are strings
\* in the model and are not among them)
RECURSIVE iter_child_nodes_loop(_, _)
iter_child_nodes_loop(node, fields) ==
  IF fields = <<>> THEN <<>>
  ELSE
    LET field == node[Head(fields)]
    IN  (IF IsListField(Head(fields)) THEN SelectSeq(field, LAMBDA item : item # NoneNode)
         ELSE IF field = NoneNode THEN <<>>
         ELSE <<field>>)
        \o iter_child_nodes_loop(node, Tail(fields))

iter_child_nodes(node) == iter_child_nodes_loop(node, WalkableFields(node))

\* ast.walk: the nodes of a tree, breadth first
RECURSIVE walk_loop(_, _)
walk_loop(todo, walked) ==
  IF todo = <<>> THEN walked
  ELSE TheOne({walk_loop(next_todo, next_walked) :
                 next_todo \in {Tail(todo) \o iter_child_nodes(Head(todo))},
                 next_walked \in {Append(walked, Head(todo))}})

walk(tree) == walk_loop(<<tree>>, <<>>)

\* what a call of a pass comes to: it returns, or an exception leaves it
Returned == [raised |-> FALSE]
Raised(exc) == [raised |-> TRUE, exc |-> exc]

\* common.CheckError(msg); the text of msg is the sequence of its pieces
CheckError(msg) == [exc |-> "CheckError", msg |-> msg]

\* str(node) of an ast node, but for the address in it
NodeStr(node) == <<"<_ast.", node.k, " object>">>

\* common.BUILTIN_NAMES
BUILTIN_NAMES ==
  {"abs", "all", "any", "bool", "bytes", "chr", "dict", "dir", "filter", "float",
   "getattr", "input", "int", "isinstance", "iter", "len", "list", "map", "max",
   "min", "next", "object", "open", "print", "range", "repr", "set", "sorted",
   "str", "sum", "super", "tuple", "type", "zip"}

\* NoStarImports.__call__, the body of its loop for one node
NoStarImports_node(node) ==
  IF node.k # "ImportFrom" THEN Returned
  ELSE IF \E i \in 1..Len(node.names) : node.names[i].name = "*"
  THEN Raised(CheckError(<<"Prohibited from ", node.module, " import *.">>))
  ELSE Returned

prohibited_import_overrides == {"itertools", "six", "builtins"}

\* NoOverriddenStdlibImportsChecker.__call__, the body of its loop for one node
NoOverriddenStdlibImports_node(node) ==
  LET named == \/ node.k = "Name" /\ node.ctx = "Store"
               \/ node.k = "alias" /\ node.asname # NoneName
      name_in_scope == IF node.k = "Name" THEN node.id ELSE node.asname
  IN  IF named /\ name_in_scope \in prohibited_import_overrides
      THEN Raised(CheckError(<<"Prohibited override of import '", name_in_scope, "'">>))
      ELSE Returned

\* NoOverriddenBuiltinsChecker.__call__, the body of its loop for one node
NoOverriddenBuiltins_node(node) ==
  LET named == \/ node.k = "Name" /\ node.ctx = "Store"
               \/ node.k = "alias"
      name_in_scope == IF node.k = "Name" THEN node.id
                       ELSE IF node.asname = NoneName THEN node.name
                       ELSE node.asname
  IN  IF named /\ name_in_scope \in BUILTIN_NAMES
      THEN Raised(CheckError(<<"Prohibited override of builtin '", name_in_scope, "'">>))
      ELSE Returned

PROHIBITED_OPEN_ARGUMENTS ==
  {<<"e","n","c","o","d","i","n","g">>, <<"e","r","r","o","r","s">>,
   <<"n","e","w","l","i","n","e">>, <<"c","l","o","s","e","f","d">>,
   <<"o","p","e","n","e","r">>}

ModeValueError(mode_node) ==
  Raised(CheckError(<<"Prohibited value for argument 'mode' of builtin.open. ",
                      "Expected ast.Str node, got: ">> \o NodeStr(mode_node)))

\* the loop of NoOpenWithEncodingChecker.__call__ over the keywords of a call:
\* the mode the keywords leave, or the error one of them raises
RECURSIVE open_keywords(_, _)
open_keywords(keywords, mode) ==
  IF keywords = <<>> THEN [raised |-> FALSE, mode |-> mode]
  ELSE
    LET kw == Head(keywords)
    IN  IF kw.arg \in PROHIBITED_OPEN_ARGUMENTS
        THEN Raised(CheckError(<<"Prohibited keyword argument '">> \o kw.arg
                               \o <<"' to builtin.open.">>))
        ELSE IF kw.arg # <<"m","o","d","e">> THEN open_keywords(Tail(keywords), mode)
        ELSE IF kw.value.k = "Str" THEN open_keywords(Tail(keywords), kw.value.s)
        ELSE ModeValueError(kw.value)

\* NoOpenWithEncodingChecker.__call__, the body of its loop for one node
NoOpenWithEncoding_node(node) ==
  IF node.k # "Call" THEN Returned
  ELSE IF node.func.k # "Name" THEN Returned
  ELSE IF node.func.id # "open" \/ node.func.ctx # "Load" THEN Returned
  ELSE IF Len(node.args) >= 2 /\ node.args[2].k # "Str" THEN ModeValueError(node.args[2])
  ELSE IF Len(node.args) > 3
  THEN Raised(CheckError(<<"Prohibited positional arguments to builtin.open">>))
  ELSE
    LET left == open_keywords(node.keywords,
                              IF Len(node.args) >= 2 THEN node.args[2].s ELSE <<"r">>)
    IN  IF left.raised THEN left
        ELSE IF \A i \in 1..Len(left.mode) : left.mode[i] # "b"
        THEN Raised(CheckError(<<"Prohibited value '">> \o left.mode
                               \o <<"' for argument 'mode' of builtin.open. ",
                                    "Only binary modes are allowed, use io.open as an alternative.">>))
        ELSE Returned

ASYNC_AWAIT_NODE_TYPES == {"AsyncFor", "AsyncWith", "AsyncFunctionDef", "Await"}

\* NoAsyncAwait.__call__, the body of its loop for one node
NoAsyncAwait_node(node) ==
  IF node.k \in ASYNC_AWAIT_NODE_TYPES
  THEN Raised(CheckError(<<"Prohibited use of async/await">>))
  ELSE Returned

N_NoAsyncAwait == <<"N","o","A","s","y","n","c","A","w","a","i","t">>
N_NoOpenWithEncodingChecker == <<"N","o","O","p","e","n","W","i","t","h","E","n","c","o","d","i","n","g","C","h","e","c","k","e","r">>
N_NoOverriddenBuiltinsChecker == <<"N","o","O","v","e","r","r","i","d","d","e","n","B","u","i","l","t","i","n","s","C","h","e","c","k","e","r">>
N_NoOverriddenStdlibImportsChecker == <<"N","o","O","v","e","r","r","i","d","d","e","n","S","t","d","l","i","b","I","m","p","o","r","t","s","C","h","e","c","k","e","r">>
N_NoStarImports == <<"N","o","S","t","a","r","I","m","p","o","r","t","s">>
N_NoThreeOnlyImports == <<"N","o","T","h","r","e","e","O","n","l","y","I","m","p","o","r","t","s">>

\* what the body of the loop `for node in ast.walk(tree)` of a checker class
\* does with one node (NoThreeOnlyImports.__call__ has no loop: it is `pass`)
check_node(clazz, node) ==
  IF clazz = N_NoStarImports THEN NoStarImports_node(node)
  ELSE IF clazz = N_NoOverriddenStdlibImportsChecker THEN NoOverriddenStdlibImports_node(node)
  ELSE IF clazz = N_NoOverriddenBuiltinsChecker THEN NoOverriddenBuiltins_node(node)
  ELSE IF clazz = N_NoOpenWithEncodingChecker THEN NoOpenWithEncoding_node(node)
  ELSE IF clazz = N_NoAsyncAwait THEN NoAsyncAwait_node(node)
  ELSE Returned

\* the loop over ast.walk(tree): the first node whose turn raises ends it
first_raising(clazz, nodes) ==
  LET raising == {i \in 1..Len(nodes) : check_node(clazz, nodes[i]).raised}
  IN  IF raising = {} THEN 0
      ELSE CHOOSE i \in raising : \A j \in raising : i <= j

\* checker(cfg, tree), the __call__ of a checker instance
checker_call(self, tree) ==
  TheOne({
    TheOne({IF at = 0 THEN Returned ELSE check_node(self.clazz, nodes[at])
            : at \in {first_raising(self.clazz, nodes)}})
    : nodes \in {walk(tree)}})

----------------------------------------------------------------------------
(* The fixers' __call__.  The trees of the model hold no FunctionDef,       *)
(* ClassDef, JoinedStr or Import node, so a fixer that does all its work in *)
(* a visit method for one of these returns the tree as it got it.           *)

N_ItertoolsBuiltinsFixer == <<"I","t","e","r","t","o","o","l","s","B","u","i","l","t","i","n","s","F","i","x","e","r">>
N_RemoveAnnAssignFixer == <<"R","e","m","o","v","e","A","n","n","A","s","s","i","g","n","F","i","x","e","r">>
N_RemoveFunctionDefAnnotationsFixer == <<"R","e","m","o","v","e","F","u","n","c","t","i","o","n","D","e","f","A","n","n","o","t","a","t","i","o","n","s","F","i","x","e","r">>
N_UnpackingGeneralizationsFixer == <<"U","n","p","a","c","k","i","n","g","G","e","n","e","r","a","l","i","z","a","t","i","o","n","s","F","i","x","e","r">>

\* what fixer(cfg, tree) comes to: the tree it returns and the instance as the
\* call leaves it, or the exception that leaves the call
FixerReturned(value, self) == [raised |-> FALSE, value |-> value, self |-> self]
FixerRaised(exc, self) == [raised |-> TRUE, exc |-> exc, self |-> self]

\* common.FixerError(msg, node, module=None)
FixerError(msg, node, module) ==
  [exc |-> "FixerError", msg |-> msg, node |-> node, module |-> module]

\* FutureImportFixerBase.__call__
FutureImportFixerBase_call(self, tree) ==
  FixerReturned(tree,
    [self EXCEPT !.required_imports =
       @ \cup {ImportDecl("__future__", GetAttr(fixers, self.clazz).future_name)}])

\* BuiltinsRenameFixerBase.__call__
BuiltinsRenameFixerBase_call(self, tree) ==
  TheOne({
    LET new_name == GetAttr(fixers, self.clazz).new_name
        old_name == GetAttr(fixers, self.clazz).old_name
        found == \E i \in 1..Len(nodes) :
                   /\ nodes[i].k = "Name"
                   /\ nodes[i].ctx = "Load"
                   /\ nodes[i].id = new_name
        decl == <<new_name, " = getattr(__builtins__, '", old_name, "', ", new_name, ")">>
    IN  FixerReturned(tree,
          [self EXCEPT !.module_declarations = IF found THEN @ \cup {decl} ELSE @])
    : nodes \in {walk(tree)}})

\* ItertoolsBuiltinsFixer.__call__: self.visit(tree) brings visit_Name to every
\* Name node of the tree, and visit_Name returns the node it got
ItertoolsBuiltinsFixer_call(self, tree) ==
  TheOne({
    LET ids == {nodes[i].id : i \in {j \in 1..Len(nodes) :
                                       /\ nodes[j].k = "Name"
                                       /\ nodes[j].ctx = "Load"
                                       /\ nodes[j].id \in {"map", "zip", "filter"}}}
    IN  FixerReturned(tree,
          [self EXCEPT
             !.required_imports = IF ids = {} THEN @ ELSE @ \cup {ImportDecl("itertools", NoneName)},
             !.module_declarations =
                @ \cup {<<id, " = getattr(itertools, 'i", id, "', ", id, ")">> : id \in ids}])
    : nodes \in {walk(tree)}})

\* RemoveAnnAssignFixer.visit_AnnAssign
visit_AnnAssign(node) ==
  IF node.target.k \notin {"Name", "Attribute"}
  THEN Raise(FixerError("Unexpected Node type", node.target, NoneNode), {})
  ELSE Ok([k |-> "Assign", targets |-> <<node.target>>,
           value |-> IF node.value = NoneNode
                     THEN [k |-> "NameConstant", value |-> NoneNode]
                     ELSE node.value], {})

\* NodeTransformer.generic_visit on the body of the Module, for the
\* RemoveAnnAssignFixer: visit_AnnAssign for an AnnAssign, and for any other
\* statement generic_visit, which finds no AnnAssign below it
RECURSIVE visit_body(_, _)
visit_body(old_value, new_values) ==
  IF old_value = <<>> THEN Ok(new_values, {})
  ELSE TheOne({
    IF ~value.ok THEN value
    ELSE TheOne({visit_body(rest, next_values) :
                   rest \in {Tail(old_value)},
                   next_values \in {Append(new_values, value.node)}})
    : value \in {IF Head(old_value).k = "AnnAssign"
                 THEN visit_AnnAssign(Head(old_value))
                 ELSE Ok(Head(old_value), {})}})

\* TransformerFixerBase.__call__ with every exception's module set to the tree
TransformerFixerBase_call_overwrites(self, tree, visited) ==
  IF visited.ok THEN FixerReturned(visited.node, self)
  ELSE IF visited.exc.exc = "FixerError"
  THEN FixerRaised([visited.exc EXCEPT !.module = tree], self)
  ELSE FixerRaised(visited.exc, self)

\* TransformerFixerBase.__call__, visited being what self.visit(tree) returns
\* or raises
TransformerFixerBase_call(self, tree, visited) ==
  IF visited.ok THEN FixerReturned(visited.node, self)
  ELSE IF visited.exc.exc = "FixerError"
  THEN FixerRaised(IF visited.exc.module = NoneNode
                   THEN [visited.exc EXCEPT !.module = tree]
                   ELSE visited.exc, self)
  ELSE FixerRaised(visited.exc, self)

\* TransformerFixerBase.__call__ of the RemoveAnnAssignFixer
RemoveAnnAssignFixer_call(self, tree) ==
  TheOne({
    TransformerFixerBase_call(self, tree,
      IF body.ok THEN Ok([tree EXCEPT !.body = body.node], {}) ELSE Raise(body.exc, {}))
    : body \in {visit_body(tree.body, <<>>)}})

\* UnpackingGeneralizationsFixer.walk_stmt
walk_stmt(node) == walk_fields(node, WalkableFields(node), {})

\* UnpackingGeneralizationsFixer.walk_stmtlist
RECURSIVE walk_stmtlist(_, _, _)
walk_stmtlist(stmtlist, new_stmts, imports) ==
  IF stmtlist = <<>> THEN Ok(new_stmts, imports)
  ELSE TheOne({
    IF ~new_stmt.ok THEN Raise(new_stmt.exc, imports \cup new_stmt.imports)
    ELSE TheOne({walk_stmtlist(rest, next_stmts, next_imports) :
                   rest \in {Tail(stmtlist)},
                   next_stmts \in {Append(new_stmts, new_stmt.node)},
                   next_imports \in {imports \cup new_stmt.imports}})
    : new_stmt \in {walk_stmt(Head(stmtlist))}})

\* UnpackingGeneralizationsFixer.__call__
UnpackingGeneralizationsFixer_call(self, tree) ==
  TheOne({
    LET after == [self EXCEPT !.required_imports = @ \cup body.imports]
    IN  IF body.ok THEN FixerReturned([tree EXCEPT !.body = body.node], after)
        ELSE FixerRaised([exc |-> body.exc], after)
    : body \in {walk_stmtlist(tree.body, <<>>, {})}})

\* fixer(cfg, tree), the __call__ of a fixer instance
fixer_call(self, tree) ==
  LET parent == GetAttr(fixers, self.clazz).parent
  IN  IF parent = N_FutureImportFixerBase THEN FutureImportFixerBase_call(self, tree)
      ELSE IF parent = N_BuiltinsRenameFixerBase THEN BuiltinsRenameFixerBase_call(self, tree)
      ELSE IF self.clazz = N_ItertoolsBuiltinsFixer THEN ItertoolsBuiltinsFixer_call(self, tree)
      ELSE IF self.clazz = N_RemoveAnnAssignFixer THEN RemoveAnnAssignFixer_call(self, tree)
      ELSE IF self.clazz = N_UnpackingGeneralizationsFixer
      THEN UnpackingGeneralizationsFixer_call(self, tree)
      ELSE FixerReturned(tree, self)

----------------------------------------------------------------------------
(* SpecVersion: the window queries on every pass class and version pair.    *)

\* str(n) for a natural number
RECURSIVE IntStr(_)
IntStr(n) ==
  IF n < 10 THEN <<DigitChars[n + 1]>>
  ELSE IntStr(n \div 10) \o <<DigitChars[(n % 10) + 1]>>

\* the version strings "1.0" .. "MaxMajor.MaxMinor" a caller may configure
Versions ==
  {IntStr(major) \o <<".">> \o IntStr(minor) : major \in 1..MaxMajor, minor \in 0..MaxMinor}

IdleSelect ==
  /\ sel_names = [idle |-> TRUE]
  /\ sel_clazz = NoneStr
  /\ sel_it = [state |-> "idle"]
  /\ sel_yielded = <<>>

\* no exception has left transpile_module; it has returned nothing
NoError == [exc |-> "None"]
NoOutput == [returned |-> FALSE]

IdlePipeline ==
  /\ cfg = [idle |-> TRUE]
  /\ module_source = [k |-> "None"]
  /\ pc = "idle"
  /\ module_tree = [k |-> "None"]
  /\ checker_it = [state |-> "idle"]
  /\ fixer_it = [state |-> "idle"]
  /\ current = [idle |-> TRUE]
  /\ checker_log = <<>>
  /\ fixer_objs = <<>>
  /\ error = NoError
  /\ output = NoOutput

IdleVersion ==
  /\ vpass = [idle |-> TRUE]
  /\ vsrc = NoneStr
  /\ vtgt = NoneStr
  /\ vres = [asked |-> FALSE]

IdleUnpack ==
  /\ uin = [k |-> "None"]
  /\ unode = [k |-> "None"]
  /\ ustar = [k |-> "None"]
  /\ uout = [k |-> "None"]
  /\ uagain = [k |-> "None"]

IdleTransformer ==
  /\ ttree = [k |-> "None"]
  /\ tvisited = [k |-> "None"]
  /\ tresult = [k |-> "None"]

InitVersion ==
  /\ vpass \in Classes(fixers, N_FixerBase) \cup Classes(checkers, N_CheckerBase)
  /\ vsrc \in Versions
  /\ vtgt \in Versions
  /\ vres = [asked |-> FALSE]
  /\ IdleSelect
  /\ IdlePipeline
  /\ IdleUnpack
  /\ IdleTransformer

\* a caller asks a fixer class for its three window predicates
FixerWindowQuery ==
  /\ ~vres.asked
  /\ vpass \in Classes(fixers, N_FixerBase)
  /\ vres' = IF vpass.version_info = NoVersionInfo
             THEN [asked |-> TRUE, raised |-> "AttributeError"]
             ELSE [asked |-> TRUE, raised |-> "",
                   is_required_for |-> is_required_for(vpass, vtgt),
                   is_compatible_with |-> is_compatible_with(vpass, vsrc),
                   is_applicable_to |-> is_applicable_to(vpass, vsrc, vtgt)]
  /\ UNCHANGED <<vpass, vsrc, vtgt, svars, pvars, uvars, tvars>>

\* a caller asks a checker class whether it is prohibited for the target
CheckerWindowQuery ==
  /\ ~vres.asked
  /\ vpass \in Classes(checkers, N_CheckerBase)
  /\ vres' = IF vpass.version_info = NoVersionInfo
             THEN [asked |-> TRUE, raised |-> "AttributeError"]
             ELSE [asked |-> TRUE, raised |-> "",
                   is_prohibited_for |-> is_prohibited_for(vpass, vtgt)]
  /\ UNCHANGED <<vpass, vsrc, vtgt, svars, pvars, uvars, tvars>>

NextVersion == FixerWindowQuery \/ CheckerWindowQuery

SpecVersion == InitVersion /\ [][NextVersion]_vars

----------------------------------------------------------------------------
(* SpecSelect: the generator of iter_fuzzy_selected_classes, on selectors   *)
(* for either module, run to its end.                                       *)

\* str.upper()
UpperChar(c) == IF IndexIn(c, LowerChars) > 0 THEN UpperChars[IndexIn(c, LowerChars)] ELSE c
upper(s) == [i \in 1..Len(s) |-> UpperChar(s[i])]

\* ",".join(names)
RECURSIVE join(_, _)
join(names, sep) ==
  IF names = <<>> THEN <<>>
  ELSE IF Len(names) = 1 THEN names[1]
  ELSE names[1] \o <<sep>> \o join(Tail(names), sep)

\* the module a clazz is looked up in
ModuleOf(clazz_name) == IF clazz_name = N_FixerBase THEN fixers ELSE checkers

\* the pass classes a default selection instantiates: the subclasses of clazz
\* that are not one of the *Base classes
ConcretePasses(clazz_name) ==
  {c \in Classes(ModuleOf(clazz_name), clazz_name) : ~endswith(c.name, <<"B","a","s","e">>)}

\* how far into a name a selector of the model puts a separator
MaxSepPos == 2

\* the ways of writing the name of one pass: with the Checker/Fixer suffix or
\* without, as declared or in lower or upper case, with one "_" or "-" put in
SpelledNames(name, clazz_name) ==
  LET suffix == optional_suffix(clazz_name)
      other == IF endswith(name, suffix)
               THEN SubSeq(name, 1, Len(name) - Len(suffix))
               ELSE name \o suffix
      cased == UNION {{n, lower(n), upper(n)} : n \in {name, other}}
      separated == {SubSeq(n, 1, p) \o <<c>> \o SubSeq(n, p + 1, Len(n)) :
                      n \in cased, p \in 0..MaxSepPos, c \in {"_", "-"}}
  IN  cased \cup separated

\* selectors that name no pass
BlankSelectors ==
  {StrNames(<<>>), StrNames(<<" ">>), StrNames(<<",">>), StrNames(<<" ", ",", " ", ",">>),
   ListNames(<<>>), ListNames(<<<<>>, <<" ">>>>)}

\* selectors that name the one pass clazz
SingleSelectors(clazz, clazz_name) ==
  LET spelled == SpelledNames(clazz.name, clazz_name)
  IN  {StrNames(n) : n \in spelled}
      \cup {ListNames(<<n>>) : n \in {clazz.name, lower(clazz.name)}}
      \cup {StrNames(<<" ">> \o clazz.name \o <<" ", ",">>)}

\* selectors that name two passes, and selectors with a name of no pass
N_bogus == <<"b","o","g","u","s">>
PairSelectors(clazz_name) ==
  {StrNames(join(<<a.name, b.name>>, ",")) :
     a \in ConcretePasses(clazz_name), b \in ConcretePasses(clazz_name)}
UnknownSelectors(clazz_name) ==
  {StrNames(N_bogus), StrNames(clazz_name), ListNames(<<N_bogus>>)}
  \cup {StrNames(join(<<a.name, N_bogus>>, ",")) : a \in ConcretePasses(clazz_name)}
  \cup {StrNames(join(<<N_bogus, a.name>>, ",")) : a \in ConcretePasses(clazz_name)}

SelectorsOf(clazz_name) ==
  BlankSelectors
  \cup UNION {SingleSelectors(c, clazz_name) : c \in ConcretePasses(clazz_name)}
  \cup PairSelectors(clazz_name)
  \cup UnknownSelectors(clazz_name)

InitSelect ==
  /\ sel_clazz \in {N_CheckerBase, N_FixerBase}
  /\ sel_names \in SelectorsOf(sel_clazz)
  /\ sel_it = GenCreated(sel_names)
  /\ sel_yielded = <<>>
  /\ IdleVersion
  /\ IdlePipeline
  /\ IdleUnpack
  /\ IdleTransformer

SelRunning == sel_it.state \in {"created", "suspended"}

\* next() gets an instance
SelYield ==
  /\ SelRunning
  /\ LET step == gen_next(sel_it, ModuleOf(sel_clazz), sel_clazz)
     IN  /\ step.it.state = "suspended"
         /\ sel_it' = step.it
         /\ sel_yielded' = Append(sel_yielded, step.value)
  /\ UNCHANGED <<sel_names, sel_clazz, vvars, pvars, uvars, tvars>>

\* next() finds the generator at its end
SelStop ==
  /\ SelRunning
  /\ LET step == gen_next(sel_it, ModuleOf(sel_clazz), sel_clazz)
     IN  /\ step.it.state = "finished"
         /\ sel_it' = step.it
  /\ UNCHANGED <<sel_names, sel_clazz, sel_yielded, vvars, pvars, uvars, tvars>>

\* next() raises what the body of the generator raised
SelRaise ==
  /\ SelRunning
  /\ LET step == gen_next(sel_it, ModuleOf(sel_clazz), sel_clazz)
     IN  /\ step.it.state = "raised"
         /\ sel_it' = step.it
  /\ UNCHANGED <<sel_names, sel_clazz, sel_yielded, vvars, pvars, uvars, tvars>>

NextSelect == SelYield \/ SelStop \/ SelRaise

SpecSelect == InitSelect /\ [][NextSelect]_vars

----------------------------------------------------------------------------
(* SpecUnpack: walk_node of the unpacking fixer on one expression.          *)

\* all sequences over S of length lo to hi
SeqsOfLen(S, lo, hi) == UNION {[1..m -> S] : m \in lo..hi}
\* all sequences over S of length at most n
SeqsUpTo(S, n) == SeqsOfLen(S, 0, n)

\* the entries of an args/elts list: plain elements, spreads of names and of
\* container literals (one of them ending in a spread), and container
\* literals that hold spreads themselves
UnpackElts ==
  {Num(1),
   Name("a", "Load"),
   Starred(Name("x", "Load")),
   Starred(List(<<>>)),
   Starred(List(<<Num(2), Starred(Name("y", "Load"))>>)),
   Starred(Tuple(<<Num(3)>>)),
   List(<<Starred(Name("x", "Load")), Num(4)>>),
   Set(<<Starred(Name("x", "Load")), Starred(List(<<>>))>>)}

\* the entries of a keywords list: named keywords and ** spreads of names and
\* of mapping literals (one of them holding a spread itself)
UnpackKeywords ==
  {keyword(<<"b">>, Num(1)),
   keyword(NoneStr, Name("m", "Load")),
   keyword(NoneStr, Dict(<<Str(<<"k">>)>>, <<Num(2)>>)),
   keyword(NoneStr, Dict(<<Str(<<"j">>), NoneNode>>, <<Num(3), Name("n", "Load")>>))}

\* the callees: an ordinary function and the mapping builtin
UnpackFuncs == {Name("f", "Load"), Name("dict", "Load")}

\* the positional arguments of the calls that carry keywords
UnpackArgs == {<<>>, <<Name("a", "Load")>>, <<Starred(Name("x", "Load")), Num(1)>>}

\* a mapping literal with the entries of a keywords list
DictOf(keywords) ==
  Dict([i \in 1..Len(keywords) |->
          IF keywords[i].arg = NoneStr THEN NoneNode ELSE Str(keywords[i].arg)],
       [i \in 1..Len(keywords) |-> keywords[i].value])

\* the longest args/elts/keywords list of an input
MaxElts == 3

UnpackInputs ==
  LET eltss == SeqsUpTo(UnpackElts, MaxElts)
      kwss == SeqsUpTo(UnpackKeywords, MaxElts)
  IN  {List(elts) : elts \in eltss}
      \cup {Tuple(elts) : elts \in eltss}
      \cup {Set(elts) : elts \in SeqsOfLen(UnpackElts, 1, MaxElts)}
      \cup {Call(Name("f", "Load"), elts, <<>>) : elts \in eltss}
      \cup {Call(func, args, kws) : func \in UnpackFuncs, args \in UnpackArgs, kws \in kwss}
      \cup {DictOf(kws) : kws \in kwss}

InitUnpack ==
  /\ uin \in UnpackInputs
  /\ unode = NoneNode
  /\ ustar = NoneNode
  /\ uout = NoneNode
  /\ uagain = NoneNode
  /\ IdleVersion
  /\ IdleSelect
  /\ IdlePipeline
  /\ IdleTransformer

\* walk_node walks the fields of the node (lines 823-839)
UWalkFields ==
  /\ unode = NoneNode
  /\ unode' = walk_fields(uin, WalkableFields(uin), {})
  /\ UNCHANGED <<uin, ustar, uout, uagain, vvars, svars, pvars, tvars>>

\* walk_node visits the node itself (lines 841-858)
UVisit ==
  /\ unode # NoneNode
  /\ uout = NoneNode
  /\ unode.ok
  /\ ustar' = IF /\ unode.node.k \in ExprNodes
                 /\ unode.node.k \in ArgUnpackNodes
                 /\ has_stararg_g12n(unode.node)
              THEN expand_stararg_g12n(unode.node)
              ELSE NoneNode
  /\ uout' = visit_walked(unode.node, unode.imports)
  /\ UNCHANGED <<uin, unode, uagain, vvars, svars, pvars, tvars>>

\* an exception raised below the node leaves walk_node
URaise ==
  /\ unode # NoneNode
  /\ uout = NoneNode
  /\ ~unode.ok
  /\ uout' = unode
  /\ UNCHANGED <<uin, unode, ustar, uagain, vvars, svars, pvars, tvars>>

\* walk_node once more, on the node the first call returned (the fixer run
\* again on its own output); the instance is the same, so what the call adds
\* to required_imports joins what the first call added
USecondRun ==
  /\ uout # NoneNode
  /\ uout.ok
  /\ uagain = NoneNode
  /\ uagain' = walk_node(uout.node)
  /\ UNCHANGED <<uin, unode, ustar, uout, vvars, svars, pvars, tvars>>

NextUnpack == UWalkFields \/ UVisit \/ URaise \/ USecondRun

SpecUnpack == InitUnpack /\ [][NextUnpack]_vars

----------------------------------------------------------------------------
(* Spec: one run of transpile.transpile_module.                             *)

\* the module sources of the model, each as the tree ast.parse makes of it
\*   x = f(a)
SourcePlain ==
  Module(<<Assign(<<Name("x", "Store")>>, Call(Name("f", "Load"), <<Name("a", "Load")>>, <<>>))>>)
\*   from m import *
\*   await z
SourceStarAwait ==
  Module(<<ImportFrom("m", <<alias("*", NoneName)>>), Expr(Await(Name("z", "Load")))>>)
\*   from m import *
\*   from n import *
SourceTwoStars ==
  Module(<<ImportFrom("m", <<alias("*", NoneName)>>), ImportFrom("n", <<alias("*", NoneName)>>)>>)
\*   f(*x, 1, **m, b=1)
\*   y = map(g, range(3))
SourceEffects ==
  Module(<<Expr(Call(Name("f", "Load"), <<Starred(Name("x", "Load")), Num(1)>>,
                     <<keyword(NoneStr, Name("m", "Load")), keyword(<<"b">>, Num(1))>>)),
           Assign(<<Name("y", "Store")>>,
                  Call(Name("map", "Load"),
                       <<Name("g", "Load"), Call(Name("range", "Load"), <<Num(3)>>, <<>>)>>, <<>>))>>)
\*   {**a, **b}
SourceDictSpreads ==
  Module(<<Expr(Dict(<<NoneNode, NoneNode>>, <<Name("a", "Load"), Name("b", "Load")>>))>>)
\*   itertools = open(p, "r")
SourceOverride ==
  Module(<<Assign(<<Name("itertools", "Store")>>,
                  Call(Name("open", "Load"), <<Name("p", "Load"), Str(<<"r">>)>>, <<>>))>>)
\*   v: int = 2
\*   a[0]: int = 1
SourceAnnAssign ==
  Module(<<AnnAssign(Name("v", "Store"), Name("int", "Load"), Num(2)),
           AnnAssign(Subscript(Name("a", "Load"), Index(Num(0)), "Store"),
                     Name("int", "Load"), Num(1))>>)
\*   v: int
\*   from itertools import chain as zip
\*   open(p, "rb", encoding=e)
SourceMixed ==
  Module(<<AnnAssign(Name("v", "Store"), Name("int", "Load"), NoneNode),
           ImportFrom("itertools", <<alias("chain", "zip")>>),
           Expr(Call(Name("open", "Load"), <<Name("p", "Load"), Str(<<"r", "b">>)>>,
                     <<keyword(<<"e","n","c","o","d","i","n","g">>, Name("e", "Load"))>>))>>)

Sources ==
  {SourcePlain, SourceStarAwait, SourceTwoStars, SourceEffects, SourceDictSpreads,
   SourceOverride, SourceAnnAssign, SourceMixed}

\* the checker and fixer selectors of the model's configs
N_UnicodeLiteralsFutureFixer == <<"U","n","i","c","o","d","e","L","i","t","e","r","a","l","s","F","u","t","u","r","e","F","i","x","e","r">>
N_XrangeToRangeFixer == <<"X","r","a","n","g","e","T","o","R","a","n","g","e","F","i","x","e","r">>
CheckerSelectors ==
  {StrNames(<<>>),
   StrNames(join(<<N_NoStarImports, N_NoAsyncAwait>>, ",")),
   StrNames(join(<<lower(N_NoOpenWithEncodingChecker), N_NoOverriddenStdlibImportsChecker>>, ",")),
   StrNames(join(<<N_NoStarImports, N_bogus>>, ",")),
   ListNames(<<N_NoThreeOnlyImports, N_NoOverriddenBuiltinsChecker>>)}
FixerSelectors ==
  {StrNames(<<>>),
   ListNames(<<N_UnpackingGeneralizationsFixer, N_ItertoolsBuiltinsFixer, N_XrangeToRangeFixer>>),
   StrNames(join(<<N_RemoveAnnAssignFixer, N_UnpackingGeneralizationsFixer>>, ",")),
   StrNames(join(<<N_UnicodeLiteralsFutureFixer, N_bogus>>, ",")),
   StrNames(N_bogus)}

\* the BuildConfigs of the model: the selectors, and the versions of the
\* configured source and target dialect; one config sets no selector
Configs ==
  {[checkers |-> c, fixers |-> f, source_version |-> v[1], target_version |-> v[2]] :
     c \in CheckerSelectors, f \in FixerSelectors,
     v \in {<<<<"3", ".", "6">>, <<"2", ".", "7">>>>, <<<<"3", ".", "1", "0">>, <<"3", ".", "5">>>>}}
  \cup {[source_version |-> <<"3", ".", "6">>, target_version |-> <<"3", ".", "5">>]}

\* cfg.get(key, "")
cfg_get(config, key) == IF key \in DOMAIN config THEN config[key] ELSE StrNames(<<>>)

\* parse_module_header for a source that starts with no comment or blank line
\* (the sources of the model): the default coding declaration
DefaultHeader == "# -*- coding: utf-8 -*-\n"

Init ==
  /\ cfg \in Configs
  /\ module_source \in Sources
  /\ pc = "start"
  /\ module_tree = NoneNode
  /\ checker_it = [state |-> "idle"]
  /\ fixer_it = [state |-> "idle"]
  /\ current = [idle |-> TRUE]
  /\ checker_log = <<>>
  /\ fixer_objs = <<>>
  /\ error = NoError
  /\ output = NoOutput
  /\ IdleVersion
  /\ IdleSelect
  /\ IdleUnpack
  /\ IdleTransformer

\* lines 131-135: the selectors are read, the source is parsed, the generator
\* over the checkers is made
Parse ==
  /\ pc = "start"
  /\ module_tree' = module_source
  /\ checker_it' = GenCreated(cfg_get(cfg, "checkers"))
  /\ pc' = "checkers"
  /\ UNCHANGED <<cfg, module_source, fixer_it, current, checker_log, fixer_objs, error,
                 output, vvars, svars, uvars, tvars>>

\* line 135: the for statement gets the next checker
CheckerYield ==
  /\ pc = "checkers"
  /\ LET step == gen_next(checker_it, checkers, N_CheckerBase)
     IN  /\ step.it.state = "suspended"
         /\ checker_it' = step.it
         /\ current' = step.value
  /\ pc' = "checker_call"
  /\ UNCHANGED <<cfg, module_source, module_tree, fixer_it, checker_log, fixer_objs, error,
                 output, vvars, svars, uvars, tvars>>

\* lines 135, 138: there is no further checker; the generator over the fixers
\* is made
CheckersDone ==
  /\ pc = "checkers"
  /\ LET step == gen_next(checker_it, checkers, N_CheckerBase)
     IN  /\ step.it.state = "finished"
         /\ checker_it' = step.it
  /\ fixer_it' = GenCreated(cfg_get(cfg, "fixers"))
  /\ pc' = "fixers"
  /\ UNCHANGED <<cfg, module_source, module_tree, current, checker_log, fixer_objs, error,
                 output, vvars, svars, uvars, tvars>>

\* line 135: the generator raises, and the exception leaves transpile_module
CheckerSelectRaise ==
  /\ pc = "checkers"
  /\ LET step == gen_next(checker_it, checkers, N_CheckerBase)
     IN  /\ step.it.state = "raised"
         /\ checker_it' = step.it
         /\ error' = step.it.exc
  /\ pc' = "failed"
  /\ UNCHANGED <<cfg, module_source, module_tree, fixer_it, current, checker_log, fixer_objs,
                 output, vvars, svars, uvars, tvars>>

\* a checker that empties the body of the tree it was given before it returns
CheckerReturn_clears_body ==
  /\ pc = "checker_call"
  /\ ~checker_call(current, module_tree).raised
  /\ checker_log' = Append(checker_log, current)
  /\ module_tree' = [module_tree EXCEPT !.body = <<>>]
  /\ pc' = "checkers"
  /\ UNCHANGED <<cfg, module_source, checker_it, fixer_it, current, fixer_objs,
                 error, output, vvars, svars, uvars, tvars>>

\* line 136: the checker is called and returns
CheckerReturn ==
  /\ pc = "checker_call"
  /\ ~checker_call(current, module_tree).raised
  /\ checker_log' = Append(checker_log, current)
  /\ pc' = "checkers"
  /\ UNCHANGED <<cfg, module_source, module_tree, checker_it, fixer_it, current, fixer_objs,
                 error, output, vvars, svars, uvars, tvars>>

\* a checker that raises is passed over, and the loop goes on
CheckerRaise_goes_on ==
  /\ pc = "checker_call"
  /\ LET result == checker_call(current, module_tree)
     IN  /\ result.raised
         /\ error' = result.exc
  /\ checker_log' = Append(checker_log, current)
  /\ pc' = "checkers"
  /\ UNCHANGED <<cfg, module_source, module_tree, checker_it, fixer_it, current, fixer_objs,
                 output, vvars, svars, uvars, tvars>>

\* line 136: the checker is called and raises; the exception leaves
\* transpile_module
CheckerRaise ==
  /\ pc = "checker_call"
  /\ LET result == checker_call(current, module_tree)
     IN  /\ result.raised
         /\ error' = result.exc
  /\ checker_log' = Append(checker_log, current)
  /\ pc' = "failed"
  /\ UNCHANGED <<cfg, module_source, module_tree, checker_it, fixer_it, current, fixer_objs,
                 output, vvars, svars, uvars, tvars>>

\* line 138: the for statement gets the next fixer
FixerYield ==
  /\ pc = "fixers"
  /\ LET step == gen_next(fixer_it, fixers, N_FixerBase)
     IN  /\ step.it.state = "suspended"
         /\ fixer_it' = step.it
         /\ current' = step.value
  /\ pc' = "fixer_call"
  /\ UNCHANGED <<cfg, module_source, module_tree, checker_it, checker_log, fixer_objs, error,
                 output, vvars, svars, uvars, tvars>>

\* line 138: the generator raises, and the exception leaves transpile_module
FixerSelectRaise ==
  /\ pc = "fixers"
  /\ LET step == gen_next(fixer_it, fixers, N_FixerBase)
     IN  /\ step.it.state = "raised"
         /\ fixer_it' = step.it
         /\ error' = step.it.exc
  /\ pc' = "failed"
  /\ UNCHANGED <<cfg, module_source, module_tree, checker_it, current, checker_log, fixer_objs,
                 output, vvars, svars, uvars, tvars>>

\* lines 139-142: the fixer is called and returns a tree, which becomes
\* module_tree
FixerReturn ==
  /\ pc = "fixer_call"
  /\ LET result == fixer_call(current, module_tree)
     IN  /\ ~result.raised
         /\ result.value # NoneNode
         /\ module_tree' = result.value
         /\ fixer_objs' = Append(fixer_objs, result.self)
  /\ pc' = "fixers"
  /\ UNCHANGED <<cfg, module_source, checker_it, fixer_it, current, checker_log, error,
                 output, vvars, svars, uvars, tvars>>

\* a fixer that raises or returns None is passed over, and the loop goes on
FixerRaise_goes_on ==
  /\ pc = "fixer_call"
  /\ LET result == fixer_call(current, module_tree)
     IN  /\ IF result.raised THEN TRUE ELSE result.value = NoneNode
         /\ error' = IF result.raised THEN result.exc
                     ELSE [exc |-> "Exception",
                           msg |-> <<"Error running fixer ">> \o current.clazz]
         /\ fixer_objs' = Append(fixer_objs, result.self)
  /\ pc' = "fixers"
  /\ UNCHANGED <<cfg, module_source, module_tree, checker_it, fixer_it, current, checker_log,
                 output, vvars, svars, uvars, tvars>>

\* lines 139-141: the fixer is called and raises, or returns None, for which
\* transpile_module raises; the exception leaves transpile_module
FixerRaise ==
  /\ pc = "fixer_call"
  /\ LET result == fixer_call(current, module_tree)
     IN  /\ IF result.raised THEN TRUE ELSE result.value = NoneNode
         /\ error' = IF result.raised THEN result.exc
                     ELSE [exc |-> "Exception",
                           msg |-> <<"Error running fixer ">> \o current.clazz]
         /\ fixer_objs' = Append(fixer_objs, result.self)
  /\ pc' = "failed"
  /\ UNCHANGED <<cfg, module_source, module_tree, checker_it, fixer_it, current, checker_log,
                 output, vvars, svars, uvars, tvars>>

\* lines 138, 144-145: there is no further fixer; transpile_module returns the
\* header and the source text astor makes of module_tree (here: the tree)
Finish ==
  /\ pc = "fixers"
  /\ LET step == gen_next(fixer_it, fixers, N_FixerBase)
     IN  /\ step.it.state = "finished"
         /\ fixer_it' = step.it
  /\ output' = [returned |-> TRUE, header |-> DefaultHeader, source |-> module_tree]
  /\ pc' = "done"
  /\ UNCHANGED <<cfg, module_source, module_tree, checker_it, current, checker_log, fixer_objs,
                 error, vvars, svars, uvars, tvars>>

Next ==
  \/ Parse
  \/ CheckerYield
  \/ CheckersDone
  \/ CheckerSelectRaise
  \/ CheckerReturn
  \/ CheckerRaise
  \/ FixerYield
  \/ FixerSelectRaise
  \/ FixerReturn
  \/ FixerRaise
  \/ Finish

Spec == Init /\ [][Next]_vars

----------------------------------------------------------------------------
(* SpecTransformer: TransformerFixerBase.__call__ on one tree, for every    *)
(* outcome the visit method of a subclass may have.                         *)

\* what self.visit(tree) may come to: a tree; a FixerError with its module
\* unset (as the fixers of the repository raise it) or set by who raised it;
\* an exception of another class
VisitOutcomes ==
  {Ok(t, {}) : t \in Sources}
  \cup {Raise(FixerError(msg, node, module), {}) :
          msg \in {"Unexpected Node type", "Unexpected Node Type"},
          node \in {Num(1), Name("a", "Load")},
          module \in {NoneNode} \cup Sources}
  \cup {Raise([exc |-> "TypeError"], {})}

InitTransformer ==
  /\ ttree \in Sources
  /\ tvisited \in VisitOutcomes
  /\ tresult = NoneNode
  /\ IdleVersion
  /\ IdleSelect
  /\ IdlePipeline
  /\ IdleUnpack

\* line 83: self.visit(tree) returns, and so does the call
TransformerReturn ==
  /\ tresult = NoneNode
  /\ tvisited.ok
  /\ tresult' = TransformerFixerBase_call(FixerInstance(GetAttr(fixers, N_RemoveAnnAssignFixer)),
                                          ttree, tvisited)
  /\ UNCHANGED <<ttree, tvisited, vvars, svars, pvars, uvars>>

\* lines 84-87: self.visit(tree) raises, and the exception leaves the call
TransformerRaise ==
  /\ tresult = NoneNode
  /\ ~tvisited.ok
  /\ tresult' = TransformerFixerBase_call(FixerInstance(GetAttr(fixers, N_RemoveAnnAssignFixer)),
                                          ttree, tvisited)
  /\ UNCHANGED <<ttree, tvisited, vvars, svars, pvars, uvars>>

NextTransformer == TransformerReturn \/ TransformerRaise

SpecTransformer == InitTransformer /\ [][NextTransformer]_vars

----------------------------------------------------------------------------
(* The numeric reading of a version string, as the claims use it.           *)

\* int(digits)
RECURSIVE StrInt(_)
StrInt(digits) ==
  IF digits = <<>> THEN 0
  ELSE 10 * StrInt(SubSeq(digits, 1, Len(digits) - 1))
       + (IndexIn(digits[Len(digits)], DigitChars) - 1)

\* "3.10" as the tuple of its integer components <<3, 10>>
VersionTuple(s) ==
  LET parts == split(s, ".")
  IN  [i \in 1..Len(parts) |-> StrInt(parts[i])]

\* tuple comparison, component by component
RECURSIVE TupleLt(_, _)
TupleLt(a, b) ==
  IF b = <<>> THEN FALSE
  ELSE IF a = <<>> THEN TRUE
  ELSE IF Head(a) = Head(b) THEN TupleLt(Tail(a), Tail(b))
  ELSE Head(a) < Head(b)

\* a <= b, numerically per dotted component
VLe(a, b) == VersionTuple(a) = VersionTuple(b) \/ TupleLt(VersionTuple(a), VersionTuple(b))
\* a < b, numerically per dotted component
VLt(a, b) == TupleLt(VersionTuple(a), VersionTuple(b))

FixerAsked ==
  /\ vres.asked
  /\ vres.raised = ""
  /\ vpass \in Classes(fixers, N_FixerBase)

CheckerAsked ==
  /\ vres.asked
  /\ vres.raised = ""
  /\ vpass \in Classes(checkers, N_CheckerBase)

\* C1: is_required_for(target) is true exactly when the target lies in
\* [apply_since, apply_until] in version order, both ends included.
C1_RequiredInclusive ==
  FixerAsked =>
    LET nfo == vpass.version_info
    IN  /\ vres.is_required_for <=> (VLe(nfo.apply_since, vtgt) /\ VLe(vtgt, nfo.apply_until))
        /\ (vtgt = nfo.apply_since => vres.is_required_for)
        /\ (vtgt = nfo.apply_until => vres.is_required_for)

\* C2: is_applicable_to is the conjunction of is_compatible_with(source) and
\* is_required_for(target), and is false whenever the source lies below
\* works_since or above a works_until that is set.
C2_ApplicableCompose ==
  FixerAsked =>
    LET nfo == vpass.version_info
    IN  /\ vres.is_applicable_to <=> (vres.is_compatible_with /\ vres.is_required_for)
        /\ (VLt(vsrc, nfo.works_since) => ~vres.is_applicable_to)
        /\ (nfo.works_until # NoneStr /\ VLt(nfo.works_until, vsrc) => ~vres.is_applicable_to)

\* the pairs (a, b) for which the queries of this state evaluated a <= b
ComparedPairs ==
  IF FixerAsked
  THEN LET nfo == vpass.version_info
       IN  {<<nfo.apply_since, vtgt>>, <<vtgt, nfo.apply_until>>, <<nfo.works_since, vsrc>>}
           \cup (IF nfo.works_until = NoneStr THEN {} ELSE {<<vsrc, nfo.works_until>>})
  ELSE IF CheckerAsked /\ vpass.version_info.prohibited_until # NoneStr
  THEN {<<vtgt, vpass.version_info.prohibited_until>>}
  ELSE {}

\* C3: the comparison the window predicates use orders versions numerically
\* per dotted component.
C3_NumericOrder ==
  \A p \in ComparedPairs : StrLe(p[1], p[2]) <=> VLe(p[1], p[2])

\* whether visit_expr finds interleaved spreads in a node
Interleaved(node) ==
  \/ node.k \in ArgUnpackNodes /\ has_stararg_g12n(node)
  \/ node.k \in KwArgUnpackNodes /\ has_starstarargs_g12n(node)

\* walk_node has returned a node for an input whose own list was interleaved
UnpackRewritten ==
  /\ unode # NoneNode
  /\ unode.ok
  /\ uout # NoneNode
  /\ uout.ok
  /\ Interleaved(unode.node)

\* C10: the node the normalizer returns for an interleaved call, container or
\* mapping has at most one spread of each kind, in last position: neither
\* _has_stararg_g12n nor _has_starstarargs_g12n holds of it any more.
C10_SingleSpread ==
  UnpackRewritten => ~Interleaved(uout.node)


\* where a class stands in dir(module)
RegistryIndex(clazz_name, name) ==
  CHOOSE i \in 1..Len(ModuleOf(clazz_name)) : ModuleOf(clazz_name)[i].name = name

\* C6: once the generator has yielded every selected pass, the passes stand in
\* registry order (the order of dir(module)), however the selector orders their
\* names.
C6_RegistryOrder ==
  sel_it.state = "finished" =>
    \A i, j \in 1..Len(sel_yielded) :
      i < j => RegistryIndex(sel_clazz, sel_yielded[i].clazz)
                 <= RegistryIndex(sel_clazz, sel_yielded[j].clazz)

\* the instances of a run of the generator are those of exactly these classes,
\* one each, with nothing recorded in them
YieldedExactly(classes) ==
  /\ Len(sel_yielded) = Cardinality(classes)
  /\ {sel_yielded[i].clazz : i \in 1..Len(sel_yielded)} = {c.name : c \in classes}
  /\ \A i \in 1..Len(sel_yielded) :
       sel_clazz = N_FixerBase =>
         sel_yielded[i].required_imports = {} /\ sel_yielded[i].module_declarations = {}

\* C8: a selector that names nothing makes the generator yield one new instance
\* of every concrete pass of the module and of no *Base class, and a selector
\* that names one pass, however spelled, makes it yield one new instance of
\* that pass; in neither case does the generator raise.
C8_DefaultAndSingle ==
  /\ sel_it.state = "raised" =>
       /\ sel_names \notin BlankSelectors
       /\ \A c \in ConcretePasses(sel_clazz) : sel_names \notin SingleSelectors(c, sel_clazz)
  /\ sel_it.state = "finished" =>
       /\ sel_names \in BlankSelectors => YieldedExactly(ConcretePasses(sel_clazz))
       /\ \A c \in ConcretePasses(sel_clazz) :
            sel_names \in SingleSelectors(c, sel_clazz) => YieldedExactly({c})

\* the generator has run to its end on the selector " , ," for fixers
C8_DefaultReached ==
  /\ sel_it.state = "finished"
  /\ sel_names = StrNames(<<" ", ",", " ", ",">>)
  /\ sel_clazz = N_FixerBase
  /\ Len(sel_yielded) = Cardinality(ConcretePasses(N_FixerBase))


\* C4: every fixer a run of transpile_module has invoked is applicable to the
\* configured source and target version.
C4_OnlyApplicable ==
  pc # "idle" =>
    \A i \in 1..Len(fixer_objs) :
      is_applicable_to(GetAttr(fixers, fixer_objs[i].clazz),
                       cfg.source_version, cfg.target_version)

\* the checkers the selector of the run names, one name for each
SelectedCheckers == selected_names(cfg_get(cfg, "checkers"), checkers, N_CheckerBase)

\* the turn of the loop of a checker that raises on a node of the tree, with no
\* turn before it in the order of ast.walk raising
FirstViolation(clazz, tree, exc) ==
  LET nodes == walk(tree)
  IN  \E i \in 1..Len(nodes) :
        /\ check_node(clazz, nodes[i]) = Raised(exc)
        /\ \A j \in 1..(i - 1) : ~check_node(clazz, nodes[j]).raised

NoViolation(clazz, tree) ==
  LET nodes == walk(tree)
  IN  \A i \in 1..Len(nodes) : ~check_node(clazz, nodes[i]).raised

\* C5: a fixer is got or invoked only when every selected checker has been
\* invoked and has returned; and when a CheckError left the run, it is the one
\* violation the last invoked checker meets first in the order of the
\* traversal, every checker invoked before that one found nothing, no fixer
\* has been selected or invoked, and the tree is as it was parsed.
C5_CheckersFirstFailFast ==
  /\ (pc \in {"fixers", "fixer_call", "done"} \/ fixer_objs # <<>> \/ fixer_it.state # "idle") =>
       /\ checker_it.state = "finished"
       /\ Len(checker_log) = Len(SelectedCheckers)
       /\ \A i \in 1..Len(checker_log) : NoViolation(checker_log[i].clazz, module_source)
  /\ error.exc = "CheckError" =>
       /\ pc = "failed"
       /\ output = NoOutput
       /\ fixer_objs = <<>>
       /\ fixer_it.state = "idle"
       /\ module_tree = module_source
       /\ checker_log # <<>>
       /\ FirstViolation(checker_log[Len(checker_log)].clazz, module_source, error)
       /\ \A i \in 1..(Len(checker_log) - 1) : NoViolation(checker_log[i].clazz, module_source)

\* a run on `from m import *; from n import *` with all checkers selected has
\* invoked five of them and failed with the violation for m
C5_FailFastReached ==
  /\ pc = "failed"
  /\ module_source = SourceTwoStars
  /\ Len(checker_log) = 5
  /\ error = CheckError(<<"Prohibited from ", "m", " import *.">>)

\* C7: when a KeyError for an unknown selector token leaves the run, no checker
\* has been invoked and no fixer has been invoked or has changed the tree.
C7_UnknownTokenFirst ==
  error.exc = "KeyError" =>
    /\ checker_log = <<>>
    /\ fixer_objs = <<>>
    /\ module_tree \in {NoneNode, module_source}

\* what the value transpile_module returns carries of the fixers' effects: it
\* is the header and the source text of the tree
EffectsHandedOn(out) ==
  [required_imports |-> IF "required_imports" \in DOMAIN out THEN out.required_imports ELSE {},
   module_declarations |-> IF "module_declarations" \in DOMAIN out
                           THEN out.module_declarations ELSE {}]

\* C9: what a finished run hands on carries the union of the required_imports
\* and of the module_declarations of the fixers it ran.
C9_EffectsAggregated ==
  pc = "done" =>
    EffectsHandedOn(output) =
      [required_imports |->
         UNION {fixer_objs[i].required_imports : i \in 1..Len(fixer_objs)},
       module_declarations |->
         UNION {fixer_objs[i].module_declarations : i \in 1..Len(fixer_objs)}]


\* C11: the normalizer run a second time, on the tree it produced, returns that
\* tree unchanged and adds nothing to the fixer's required_imports.
C11_Idempotent ==
  uagain # NoneNode =>
    /\ uagain.ok
    /\ uagain.node = uout.node
    /\ uout.imports \cup uagain.imports = uout.imports


\* the positional elements of a call or container, and the keyword part of a
\* call or mapping
EltsOf(node) == IF node.k = "Call" THEN node.args ELSE node.elts
KeywordsOf(node) == IF node.k = "Call" THEN <<node.keywords>> ELSE <<node.keys, node.values>>

\* walk_node has returned a node for an input
UnpackReturned ==
  /\ unode # NoneNode
  /\ unode.ok
  /\ uout # NoneNode
  /\ uout.ok

\* C12: a call or container whose elements hold no spread but a last one is
\* returned with its kind and its elements as they were, and a call or mapping
\* whose keywords hold no spread but a last one with its kind and its keywords
\* as they were.
C12_NoInterleavingNoOp ==
  UnpackReturned =>
    /\ (unode.node.k \in ArgUnpackNodes /\ ~has_stararg_g12n(unode.node)) =>
         IF uout.node.k = unode.node.k
         THEN EltsOf(uout.node) = EltsOf(unode.node)
         ELSE FALSE
    /\ (unode.node.k \in KwArgUnpackNodes /\ ~has_starstarargs_g12n(unode.node)) =>
         IF uout.node.k = unode.node.k
         THEN KeywordsOf(uout.node) = KeywordsOf(unode.node)
         ELSE FALSE


\* walk_node has walked the fields of an input and has visited the node, with
\* whatever outcome
UnpackVisited ==
  /\ unode # NoneNode
  /\ unode.ok
  /\ uout # NoneNode

\* an interleaved call or container all of whose spreads are spreads of a
\* list, set or tuple literal
LiteralSpreads(node) ==
  /\ node.k \in ArgUnpackNodes
  /\ has_stararg_g12n(node)
  /\ \A i \in 1..Len(EltsOf(node)) :
       EltsOf(node)[i].k = "Starred" => EltsOf(node)[i].value.k \in ContainerNodes

\* the elements of a list with those of every spread literal in their place
RECURSIVE Flattened(_)
Flattened(elts) ==
  IF elts = <<>> THEN <<>>
  ELSE IF Head(elts).k = "Starred" /\ Head(elts).value.k \in ContainerNodes
  THEN Head(elts).value.elts \o Flattened(Tail(elts))
  ELSE <<Head(elts)>> \o Flattened(Tail(elts))

\* C13: an interleaved call or container literal whose spreads are all spreads
\* of a list, set or tuple literal comes back as one node of its kind, its
\* elements being the plain elements and those of the spread literals in
\* their order; no concatenation and no call of list is made.
C13_LiteralFlattening ==
  (UnpackVisited /\ LiteralSpreads(unode.node)) =>
    IF uout.ok /\ uout.node.k = unode.node.k
    THEN EltsOf(uout.node) = Flattened(EltsOf(unode.node))
    ELSE FALSE


\* The segments of an element list: a run of plain elements and of the
\* elements of spread literals is one list segment, the operand of any other
\* spread is a segment to be made a list; an empty list segment is left out.
RECURSIVE SegmentsOf(_, _, _)
SegmentsOf(elts, segments, run) ==
  LET closed == IF run = <<>> THEN segments ELSE Append(segments, [lit |-> TRUE, elts |-> run])
  IN  IF elts = <<>> THEN closed
      ELSE IF Head(elts).k # "Starred"
      THEN SegmentsOf(Tail(elts), segments, Append(run, Head(elts)))
      ELSE IF Head(elts).value.k \in {"List", "Set", "Tuple"}
      THEN SegmentsOf(Tail(elts), segments, run \o Head(elts).value.elts)
      ELSE SegmentsOf(Tail(elts), Append(closed, [lit |-> FALSE, value |-> Head(elts).value]), <<>>)

\* a segment as an expression: the list literal, or list(operand)
SegmentExpr(seg) ==
  IF seg.lit THEN [k |-> "List", elts |-> seg.elts]
  ELSE [k |-> "Call", func |-> [k |-> "Name", id |-> "list", ctx |-> "Load"],
        args |-> <<seg.value>>, keywords |-> <<>>]

\* the first n segments joined with +, nested to the left
RECURSIVE Concatenation(_, _)
Concatenation(segments, n) ==
  IF n = 1 THEN SegmentExpr(segments[1])
  ELSE [k |-> "BinOp", left |-> Concatenation(segments, n - 1), op |-> "Add",
        right |-> SegmentExpr(segments[n])]

\* a concatenation in the place of the elements of a node, by the node's kind
Wrapped(node, concat) ==
  IF node.k = "Call"
  THEN [node EXCEPT !.args = <<[k |-> "Starred", value |-> concat, ctx |-> "Load"]>>]
  ELSE IF node.k = "List" THEN concat
  ELSE [k |-> "Call",
        func |-> [k |-> "Name", id |-> IF node.k = "Set" THEN "set" ELSE "tuple", ctx |-> "Load"],
        args |-> <<concat>>, keywords |-> <<>>]

\* visit_expr has called expand_stararg_g12n on a node with k segments
StarExpanded(k) ==
  /\ ustar # NoneNode
  /\ Len(SegmentsOf(EltsOf(unode.node), <<>>, <<>>)) = k

\* C14: when the positional walk leaves more than one segment, what
\* expand_stararg_g12n returns is the concatenation of the segments in their
\* order, nested to the left, wrapped by the kind of the node: the only
\* argument, spread, of a call; the concatenation itself for a list literal;
\* set(...) or tuple(...) of it for a set or tuple literal.
C14_FoldAndWrap ==
  \A k \in 2..(MaxElts + 1) :
    StarExpanded(k) =>
      /\ ustar.ok
      /\ ustar.node = Wrapped(unode.node,
                              Concatenation(SegmentsOf(EltsOf(unode.node), <<>>, <<>>), k))

\* f(*x, 1, *x) has been expanded: three segments
C14_ThreeSegments ==
  /\ StarExpanded(3)
  /\ uin = Call(Name("f", "Load"),
                <<Starred(Name("x", "Load")), Num(1), Starred(Name("x", "Load"))>>, <<>>)
  /\ ustar.ok
  /\ ustar.node.args[1].value.left.k = "BinOp"

\* a mapping literal with interleaved spreads, one of them of an expression
\* that is no mapping literal
DynamicMappingSpreads(node) ==
  /\ node.k = "Dict"
  /\ has_starstarargs_g12n(node)
  /\ \E i \in 1..Len(node.keys) : node.keys[i] = NoneNode /\ node.values[i].k # "Dict"

\* C15: a mapping literal with interleaved spreads of expressions that are no
\* mapping literals is normalized without an error, into a mapping whose only
\* entry is a spread of the chain helper's result, and the import of the
\* helper is added to required_imports.
C15_MappingChain ==
  (UnpackVisited /\ DynamicMappingSpreads(unode.node)) =>
    /\ uout.ok
    /\ ItertoolsImport \in uout.imports
    /\ IF uout.node.k = "Dict" THEN uout.node.keys = <<NoneNode>> ELSE FALSE

\* the entries of the keyword part of a call or mapping, each as the pair of
\* its key (NoneNode for a spread) and its value
EntriesOf(node) ==
  IF node.k = "Dict"
  THEN [i \in 1..Len(node.keys) |-> <<node.keys[i], node.values[i]>>]
  ELSE [i \in 1..Len(node.keywords) |->
          <<IF node.keywords[i].arg = NoneStr THEN NoneNode
            ELSE [k |-> "Str", s |-> node.keywords[i].arg],
            node.keywords[i].value>>]

\* an interleaved call or mapping all of whose spreads are spreads of a
\* mapping literal
LiteralMappingSpreads(node) ==
  /\ node.k \in KwArgUnpackNodes
  /\ has_starstarargs_g12n(node)
  /\ \A i \in 1..Len(EntriesOf(node)) :
       EntriesOf(node)[i][1] = NoneNode => EntriesOf(node)[i][2].k = "Dict"

\* the key/value pairs of a list of entries, those of a spread literal in its place
RECURSIVE MergedPairs(_)
MergedPairs(entries) ==
  IF entries = <<>> THEN <<>>
  ELSE IF Head(entries)[1] = NoneNode
  THEN [i \in 1..Len(Head(entries)[2].keys) |->
          <<Head(entries)[2].keys[i], Head(entries)[2].values[i]>>]
       \o MergedPairs(Tail(entries))
  ELSE <<Head(entries)>> \o MergedPairs(Tail(entries))

\* how many chain values are left when adjacent mapping literals are merged
RECURSIVE RemainingChainValues(_, _)
RemainingChainValues(entries, after_literal) ==
  IF entries = <<>> THEN 0
  ELSE LET literal == Head(entries)[1] # NoneNode \/ Head(entries)[2].k = "Dict"
       IN  (IF literal /\ after_literal THEN 0 ELSE 1)
           + RemainingChainValues(Tail(entries), literal)

\* the mapping a normalized node holds: the node itself, or the operand of
\* the only keyword spread of a call
MappingOf(node) ==
  IF node.k = "Dict" THEN node
  ELSE IF node.k = "Call" /\ Len(node.keywords) = 1 /\ node.keywords[1].arg = NoneStr
  THEN node.keywords[1].value
  ELSE NoneNode

\* C16: when every chain value of an interleaved mapping literal or keyword
\* list is a mapping literal, the result holds one mapping literal with all
\* the key/value pairs in their order and no import is recorded; the import of
\* the chain helper is recorded only when more than one chain value is left
\* after the collapse.
C16_LiteralCollapse ==
  UnpackVisited =>
    /\ LiteralMappingSpreads(unode.node) =>
         /\ uout.ok
         /\ uout.imports = {}
         /\ MappingOf(uout.node) =
              LET pairs == MergedPairs(EntriesOf(unode.node))
              IN  [k |-> "Dict",
                   keys |-> [i \in 1..Len(pairs) |-> pairs[i][1]],
                   values |-> [i \in 1..Len(pairs) |-> pairs[i][2]]]
    /\ (uout.ok /\ ItertoolsImport \in uout.imports) =>
         /\ unode.node.k \in KwArgUnpackNodes
         /\ RemainingChainValues(EntriesOf(unode.node), FALSE) > 1

\* f(a, **{"k": 2}, b=1, **{"k": 2}) has been collapsed into f(a, **{"k": 2, "b": 1, "k": 2})
C16_Collapsed ==
  /\ UnpackVisited
  /\ uin = Call(Name("f", "Load"), <<Name("a", "Load")>>,
                <<keyword(NoneStr, Dict(<<Str(<<"k">>)>>, <<Num(2)>>)),
                  keyword(<<"b">>, Num(1)),
                  keyword(NoneStr, Dict(<<Str(<<"k">>)>>, <<Num(2)>>))>>)
  /\ uout.ok
  /\ uout.imports = {}
  /\ Len(MappingOf(uout.node).keys) = 3

\* the names of the fixers the config selects
SelectedFixers == selected_names(cfg_get(cfg, "fixers"), fixers, N_FixerBase)

\* C17: an exception of a checker or of a fixer, and a fixer that returns
\* None, end the run where they happen: the run has failed, nothing is
\* invoked or changed afterwards, and no output is produced; an output is
\* produced only by a run in which every selected checker and every selected
\* fixer was invoked and none failed, and it holds the tree of the last fixer.
C17_AbortNoOutput ==
  /\ [](error # NoError => (pc = "failed" /\ output = NoOutput))
  /\ [](output # NoOutput =>
          /\ pc = "done"
          /\ error = NoError
          /\ checker_it.state = "finished"
          /\ fixer_it.state = "finished"
          /\ Len(checker_log) = Len(SelectedCheckers)
          /\ Len(fixer_objs) = Len(SelectedFixers)
          /\ module_tree # NoneNode
          /\ output.source = module_tree)
  /\ [][pc = "failed" =>
          /\ pc' = "failed"
          /\ fixer_objs' = fixer_objs
          /\ checker_log' = checker_log
          /\ module_tree' = module_tree
          /\ output' = NoOutput]_vars

\* the first of two selected fixers has raised a FixerError: the run has
\* failed, and the second fixer was not invoked
C17_FixerFailed ==
  /\ pc = "failed"
  /\ error.exc = "FixerError"
  /\ Len(SelectedFixers) = 2
  /\ Len(fixer_objs) = 1
  /\ output = NoOutput

FixerErrorLeft ==
  /\ tresult # NoneNode
  /\ ~tvisited.ok
  /\ tvisited.exc.exc = "FixerError"

\* C19: a FixerError that leaves the __call__ of a transformer fixer is the
\* one the visit raised, with its message and node as they were; its module
\* is the tree of the call if it had none, and is the module it had otherwise.
C19_ModuleSetOnce ==
  FixerErrorLeft =>
    /\ tresult.raised
    /\ tresult.exc.exc = "FixerError"
    /\ tresult.exc.msg = tvisited.exc.msg
    /\ tresult.exc.node = tvisited.exc.node
    /\ tvisited.exc.module = NoneNode => tresult.exc.module = ttree
    /\ tvisited.exc.module # NoneNode => tresult.exc.module = tvisited.exc.module

\* a FixerError whose module was another tree than the one of the call has
\* left the call with that module
C19_ModuleKept ==
  /\ FixerErrorLeft
  /\ tvisited.exc.module = SourcePlain
  /\ ttree = SourceMixed
  /\ tresult.exc.module = SourcePlain

\* C20: is_prohibited_for(target) is true when prohibited_until is unset, and
\* is otherwise true exactly when the target is at most prohibited_until in
\* version order, equality included.
C20_ProhibitedInclusive ==
  CheckerAsked =>
    LET prohibited_until == vpass.version_info.prohibited_until
    IN  /\ prohibited_until = NoneStr => vres.is_prohibited_for
        /\ prohibited_until # NoneStr =>
             /\ vres.is_prohibited_for <=> VLe(vtgt, prohibited_until)
             /\ vtgt = prohibited_until => vres.is_prohibited_for


\* visit_expr has called expand_stararg_g12n on a node whose elements make up
\* one segment only, the operand of a spread that is no container literal
\* (the spreads after it being spreads of empty literals)
OneMaterializedSegment ==
  /\ ustar # NoneNode
  /\ Len(SegmentsOf(EltsOf(unode.node), <<>>, <<>>)) = 1
  /\ ~SegmentsOf(EltsOf(unode.node), <<>>, <<>>)[1].lit

\* C21: when the positional walk leaves exactly one segment and that segment
\* is the operand of a spread to be made a list (f(*x, *[]), [*x, *()]),
\* expand_stararg_g12n returns without an error, and what it returns is that
\* segment wrapped by the kind of the node.
C21_SingleSegmentWrapped ==
  OneMaterializedSegment =>
    /\ ustar.ok
    /\ ustar.node = Wrapped(unode.node,
                            SegmentExpr(SegmentsOf(EltsOf(unode.node), <<>>, <<>>)[1]))

\* the operands expand_stararg_g12n is left with for a node, the trailing
\* empty list dropped
RemainingOperands(node) ==
  LET walked == stararg_operands(EltsOf(node), <<NewList(<<>>)>>)
  IN  IF Len(walked[Len(walked)].elts) = 0
      THEN SubSeq(walked, 1, Len(walked) - 1)
      ELSE walked

\* C22: whenever visit_expr calls expand_stararg_g12n (_has_stararg_g12n is
\* true for the node), at least one operand is left when the trailing empty
\* list is dropped, and the call is not left by the RuntimeError "This should
\* not happen".
C22_RuntimeErrorUnreachable ==
  ustar # NoneNode =>
    /\ Len(RemainingOperands(unode.node)) >= 1
    /\ IF ustar.ok THEN TRUE ELSE ustar.exc # "RuntimeError"

\* the chain values of a list of entries, adjacent mapping literals merged
\* into one: a spread gives its operand, a key/value pair a mapping literal
\* of that pair
RECURSIVE CollapsedChainValues(_, _)
CollapsedChainValues(entries, acc) ==
  IF entries = <<>> THEN acc
  ELSE
    LET val == IF Head(entries)[1] = NoneNode THEN Head(entries)[2]
               ELSE [k |-> "Dict", keys |-> <<Head(entries)[1]>>,
                     values |-> <<Head(entries)[2]>>]
    IN  IF acc # <<>> /\ val.k = "Dict" /\ acc[Len(acc)].k = "Dict"
        THEN CollapsedChainValues(Tail(entries),
               [acc EXCEPT ![Len(acc)] = [k |-> "Dict", keys |-> @.keys \o val.keys,
                                          values |-> @.values \o val.values]])
        ELSE CollapsedChainValues(Tail(entries), Append(acc, val))

\* the arguments the chain helper is called with in a normalized node: the
\* node is dict(itertools.chain(...)) or holds it as its only keyword spread
ChainArgsOf(node) ==
  LET holder == IF /\ node.k = "Call"
                   /\ Len(node.keywords) = 1
                   /\ node.keywords[1].arg = NoneStr
                THEN node.keywords[1].value
                ELSE node
  IN  IF /\ is_dict_call(holder)
         /\ Len(holder.args) = 1
         /\ holder.args[1].k = "Call"
         /\ holder.args[1].func.k = "Attribute"
         /\ holder.args[1].func.attr = "chain"
      THEN holder.args[1].args
      ELSE NoneNode

\* a call whose keywords are interleaved and leave more than one chain value
\* when adjacent mapping literals are merged
SeveralChainValues(node) ==
  /\ node.k = "Call"
  /\ has_starstarargs_g12n(node)
  /\ Len(CollapsedChainValues(EntriesOf(node), <<>>)) > 1

\* C23: when more than one chain value is left after the collapse of the
\* keywords of a call, the chain helper is called with one items() access for
\* each collapsed chain value, in their order; a key/value pair that was
\* merged into the mapping literal before it is not passed once more as an
\* argument of its own.
C23_OneArgPerCollapsedValue ==
  (UnpackVisited /\ SeveralChainValues(unode.node)) =>
    /\ uout.ok
    /\ ChainArgsOf(uout.node) =
         LET collapsed == CollapsedChainValues(EntriesOf(unode.node), <<>>)
         IN  [i \in 1..Len(collapsed) |->
                [k |-> "Call",
                 func |-> [k |-> "Attribute", value |-> collapsed[i],
                           attr |-> "items", ctx |-> "Load"],
                 args |-> <<>>, keywords |-> <<>>]]


\* the segments read from left to right: the elements of a list segment one
\* by one, a list(...) segment as the operand it is made from
RECURSIVE ReadSegments(_)
ReadSegments(operands) ==
  IF operands = <<>> THEN <<>>
  ELSE (IF Head(operands).k = "List" THEN Head(operands).elts
        ELSE Head(operands).args)
       \o ReadSegments(Tail(operands))

\* what an element list holds, from left to right: a plain element, the
\* elements of a spread literal, the operand of any other spread
RECURSIVE ReadElts(_)
ReadElts(elts) ==
  IF elts = <<>> THEN <<>>
  ELSE (IF Head(elts).k # "Starred" THEN <<Head(elts)>>
        ELSE IF Head(elts).value.k \in {"List", "Set", "Tuple"} THEN Head(elts).value.elts
        ELSE <<Head(elts).value>>)
       \o ReadElts(Tail(elts))

\* C24: the segments expand_stararg_g12n is left with hold, read from left to
\* right, every plain element, every element of every spread literal and the
\* operand of every other spread of the interleaved element list, each once
\* and in the order of the list: nothing is dropped, doubled or moved.
C24_ElementsAndOrderKept ==
  ustar # NoneNode =>
    ReadSegments(RemainingOperands(unode.node)) = ReadElts(EltsOf(unode.node))

\* [1, *x, *(3,)] has been expanded: its segments [1], list(x), [3] read 1, x, 3
C24_ThreeKinds ==
  /\ ustar # NoneNode
  /\ uin = List(<<Num(1), Starred(Name("x", "Load")), Starred(Tuple(<<Num(3)>>))>>)
  /\ Len(RemainingOperands(unode.node)) = 3
  /\ ReadSegments(RemainingOperands(unode.node)) = <<Num(1), Name("x", "Load"), Num(3)>>

\* the node visit_expr hands to expand_starstararg_g12n: the node whose
\* fields are walked, after expand_stararg_g12n where that was called (a call
\* is changed in place and keeps its callee and keywords)
KwExpandInput ==
  IF ustar = NoneNode THEN unode.node
  ELSE IF ustar.ok THEN ustar.node
  ELSE NoneNode

\* visit_expr has called expand_starstararg_g12n on a call
KwExpandedCall ==
  /\ UnpackVisited
  /\ unode.node.k = "Call"
  /\ KwExpandInput.k = "Call"
  /\ has_starstarargs_g12n(KwExpandInput)

\* C25: the node expand_starstararg_g12n returns for a call with interleaved
\* keyword spreads is a call of the same callee with the same positional
\* arguments, calls of dict with positional arguments included.
C25_CalleeAndArgsKept ==
  KwExpandedCall =>
    LET returned == expand_starstararg_g12n(KwExpandInput)
    IN  IF returned.ok /\ returned.node.k = "Call"
        THEN /\ returned.node.func = KwExpandInput.func
             /\ returned.node.args = KwExpandInput.args
        ELSE FALSE

=============================================================================
